---------------------------- MODULE Spec2Model ----------------------------
(***************************************************************************)
(* A model of nexusalloc: the thread arena (thread_arena.hpp), the slab    *)
(* and its handle (slab.hpp), the size-class table (size_class.hpp), the   *)
(* chunk provider (hugepage_provider.hpp), the global chunk stack          *)
(* (atomic_stack.hpp), the container adapter (allocator.hpp) and the       *)
(* bitmap (internal/bitmap.hpp).                                           *)
(*                                                                         *)
(* Pointers are natural numbers (byte addresses), nullptr is 0.  Memory is *)
(* the first pointer-sized word of every block that has been written: the  *)
(* embedded free-list link of a slab block, or the link of a chunk that    *)
(* lies on the global stack.                                               *)
(*                                                                         *)
(* Scale.  The address space is scaled down so that a slab can be filled   *)
(* in a few steps: the chunk is kChunkSize = 64 bytes instead of 2 MiB and *)
(* the OS page is kRegularPageSize = 32 bytes instead of 4 KiB.  What the  *)
(* code relies on is kept: both are powers of two, the page divides the    *)
(* chunk and is a multiple of 16, and mmap promises page alignment only.   *)
(* The size-class table is the code's own; the arena is driven with sizes  *)
(* whose block fits the scaled chunk: class 0 (16-byte blocks, four to a   *)
(* chunk) and class 2 (48-byte blocks, which do not divide the chunk).     *)
(***************************************************************************)
EXTENDS Integers, Sequences, FiniteSets, TLC

(***************************************************************************)
(* Bounds of the model.                                                    *)
(***************************************************************************)
\* mmap hands out bases among the first NumPages pages above page 0
NumPages == 4
\* the tag of the global stack's head stays at or below MaxTag: this many
\* pushes and pops succeed in a run
MaxTag == 3
\* the caller holds at most this many blocks at a time
MaxLive == 3
\* the batch properties are stated for batches of 1..MaxBatch blocks
MaxBatch == 2
\* the size-class functions are applied to every size in 0..MaxRequest and to
\* every class index in 0..MaxIndex
MaxRequest == 65600
MaxIndex == 30
\* the threads that work on the global stack at once, the chunks they pass
\* through it, and the number of pushes and pops that succeed in a run
NumThreads == 2
NumChunks == 2
MaxStackOps == 6
\* the LIFO property is stated for 1..MaxPushes pushes in a row
MaxPushes == 3

\* the blocks of all threads outstanding at one time
MaxOutstanding == 2
\* for the order of a bin's lists: mmap hands out bases among the first
\* BinPages pages, room for three chunk-aligned chunks, and the caller holds
\* at most BinLive blocks
BinPages == 6
BinLive == 3

\* a bitmap has 1..MaxBits bits
MaxBits == 8

(***************************************************************************)
(* Program constants.                                                      *)
(***************************************************************************)
NULL == 0
MAP_FAILED == -1

kChunkSize == 64
kRegularPageSize == 32

kNumSmallClasses == 16
kNumLargeClasses == 8
kNumClasses == kNumSmallClasses + kNumLargeClasses
kMinBlockSize == 16
kMaxSmallSize == 256
kMaxSlabSize == 65536

\* the width of size_t in bits, scaled down from 64 so that a product of an
\* element count and an element size can wrap
kSizeBits == 20

(***************************************************************************)
(* alignment.hpp                                                           *)
(***************************************************************************)
\* x & ~(m - 1) for m a power of two: clear the bits below m
ClearLowBits(x, m) == x - (x % m)

align_up(value, alignment) == ClearLowBits(value + alignment - 1, alignment)

(***************************************************************************)
(* size_class.hpp                                                          *)
(***************************************************************************)
RECURSIVE BitLength(_)
\* 64 - __builtin_clzll(x) for x > 0: the number of significant bits of x
BitLength(x) == IF x = 0 THEN 0 ELSE 1 + BitLength(x \div 2)

RECURSIVE ShiftLeft(_, _)
ShiftLeft(x, n) == IF n = 0 THEN x ELSE ShiftLeft(2 * x, n - 1)

kSizes == [i \in 0..(kNumClasses - 1) |->
             IF i < kNumSmallClasses THEN (i + 1) * 16
             ELSE ShiftLeft(512, i - kNumSmallClasses)]

\* index that takes the bit width of size instead of size - 1
index_WidthOfSize(size) ==
  IF size = 0 THEN 0
  ELSE LET sz == IF size < kMinBlockSize THEN kMinBlockSize ELSE size
       IN IF sz <= kMaxSmallSize
          THEN (align_up(sz, kMinBlockSize) \div kMinBlockSize) - 1
          ELSE IF sz <= kMaxSlabSize
               THEN kNumSmallClasses + BitLength(sz) - 9
               ELSE kNumClasses

index(size) ==
  IF size = 0 THEN 0
  ELSE LET sz == IF size < kMinBlockSize THEN kMinBlockSize ELSE size
       IN IF sz <= kMaxSmallSize
          THEN (align_up(sz, kMinBlockSize) \div kMinBlockSize) - 1
          ELSE IF sz <= kMaxSlabSize
               THEN kNumSmallClasses + BitLength(sz - 1) - 9
               ELSE kNumClasses

\* block_size that clamps the index to the last class
block_size_Clamped(idx) ==
  kSizes[IF idx >= kNumClasses THEN kNumClasses - 1 ELSE idx]

block_size(idx) == IF idx >= kNumClasses THEN 0 ELSE kSizes[idx]

\* a threshold that sends kMaxSlabSize itself to the large path
is_large_AtThreshold(size) == size >= kMaxSlabSize

is_large(size) == size > kMaxSlabSize

(***************************************************************************)
(* slab.hpp: Slab<BlockSize> and the SlabWrapper handle.  A handle is a    *)
(* record; slab_ptr_ is TRUE when the handle owns a Slab object, whose     *)
(* fields base_, free_head_, allocated_count_ and occupancy_ (the set of   *)
(* set bits) it then carries.                                              *)
(***************************************************************************)
slab_base_from_ptr(ptr) == ClearLowBits(ptr, kChunkSize)

\* a table that steps by 8 bytes, as the header comment of size_class.hpp says
kBlockSizeForClass_Step8(I) ==
  IF I < 16 THEN (I + 1) * 8 ELSE ShiftLeft(512, I - 16)

kBlockSizeForClass(I) ==
  IF I < 16 THEN (I + 1) * 16 ELSE ShiftLeft(512, I - 16)

\* the block count rounded up instead of down
kBlocksPerSlab_RoundUp(BlockSize) == (kChunkSize + BlockSize - 1) \div BlockSize

kBlocksPerSlab(BlockSize) == kChunkSize \div BlockSize

EmptyWrapper ==
  [slab_ptr_ |-> FALSE, class_idx_ |-> 0, base_ |-> NULL, free_head_ |-> NULL,
   allocated_count_ |-> 0, occupancy_ |-> {}]

\* a constructor that links every block to the one before it
SlabLinks_Backwards(chunk, BlockSize) ==
  LET n == kBlocksPerSlab(BlockSize)
  IN [a \in {chunk + i * BlockSize : i \in 0..(n - 1)} |->
        IF a = chunk THEN NULL ELSE a - BlockSize]

\* the words the constructor writes: block i links to block i + 1, the last to null
SlabLinks(chunk, BlockSize) ==
  LET n == kBlocksPerSlab(BlockSize)
  IN [a \in {chunk + i * BlockSize : i \in 0..(n - 1)} |->
        IF a = chunk + (n - 1) * BlockSize THEN NULL ELSE a + BlockSize]

\* memory m with the words of w written over it
Store(m, w) ==
  [a \in (DOMAIN m) \cup (DOMAIN w) |-> IF a \in DOMAIN w THEN w[a] ELSE m[a]]

\* SlabWrapper(class_idx, chunk): the handle and the memory after construction
SlabWrapper(class_idx, chunk, m) ==
  IF chunk = NULL
  THEN [slab |-> [EmptyWrapper EXCEPT !.class_idx_ = class_idx], mem |-> m]
  ELSE [slab |-> [slab_ptr_ |-> TRUE, class_idx_ |-> class_idx, base_ |-> chunk,
                  free_head_ |-> chunk, allocated_count_ |-> 0, occupancy_ |-> {}],
        mem |-> Store(m, SlabLinks(chunk, kBlockSizeForClass(class_idx)))]

valid(s) == s.slab_ptr_

base(s) == IF ~s.slab_ptr_ THEN NULL ELSE s.base_

contains(s, ptr) ==
  /\ s.slab_ptr_
  /\ ptr >= s.base_
  /\ ptr < s.base_ + kChunkSize

full(s) == IF ~s.slab_ptr_ THEN TRUE ELSE s.free_head_ = NULL

empty(s) == IF ~s.slab_ptr_ THEN TRUE ELSE s.allocated_count_ = 0

block_index(s, ptr) == (ptr - s.base_) \div kBlockSizeForClass(s.class_idx_)

\* allocate() that forgets to count the block
Slab_allocate_NoCount(s, m) ==
  IF ~s.slab_ptr_ \/ s.free_head_ = NULL
  THEN [slab |-> s, ret |-> NULL]
  ELSE LET block == s.free_head_
           next == m[block]
       IN [slab |-> [s EXCEPT !.free_head_ = next,
                              !.occupancy_ = @ \cup {block_index(s, block)}],
           ret |-> block]

\* allocate() that leaves free_head_ where it was
Slab_allocate_KeepHead(s, m) ==
  IF ~s.slab_ptr_ \/ s.free_head_ = NULL
  THEN [slab |-> s, ret |-> NULL]
  ELSE LET block == s.free_head_
       IN [slab |-> [s EXCEPT !.allocated_count_ = @ + 1,
                              !.occupancy_ = @ \cup {block_index(s, block)}],
           ret |-> block]

\* allocate(): the handle afterwards and the block returned
Slab_allocate(s, m) ==
  IF ~s.slab_ptr_ \/ s.free_head_ = NULL
  THEN [slab |-> s, ret |-> NULL]
  ELSE LET block == s.free_head_
           next == m[block]
       IN [slab |-> [s EXCEPT !.free_head_ = next,
                              !.allocated_count_ = @ + 1,
                              !.occupancy_ = @ \cup {block_index(s, block)}],
           ret |-> block]

\* deallocate(ptr) that forgets to clear the occupancy bit
Slab_deallocate_NoClear(s, m, ptr) ==
  IF ~s.slab_ptr_ \/ ptr = NULL \/ ~contains(s, ptr)
  THEN [slab |-> s, mem |-> m]
  ELSE [slab |-> [s EXCEPT !.free_head_ = ptr,
                           !.allocated_count_ = (@ + ShiftLeft(1, kSizeBits) - 1) % ShiftLeft(1, kSizeBits)],
        mem |-> Store(m, [a \in {ptr} |-> s.free_head_])]

\* deallocate(ptr) that does not write the link into the freed block
Slab_deallocate_NoLink(s, m, ptr) ==
  IF ~s.slab_ptr_ \/ ptr = NULL \/ ~contains(s, ptr)
  THEN [slab |-> s, mem |-> m]
  ELSE [slab |-> [s EXCEPT !.occupancy_ = @ \ {block_index(s, ptr)},
                           !.free_head_ = ptr,
                           !.allocated_count_ = (@ + ShiftLeft(1, kSizeBits) - 1) % ShiftLeft(1, kSizeBits)],
        mem |-> m]

\* deallocate(ptr): the handle and the memory afterwards; allocated_count_
\* is a size_t, so that the decrement of 0 wraps
Slab_deallocate(s, m, ptr) ==
  IF ~s.slab_ptr_ \/ ptr = NULL \/ ~contains(s, ptr)
  THEN [slab |-> s, mem |-> m]
  ELSE [slab |-> [s EXCEPT !.occupancy_ = @ \ {block_index(s, ptr)},
                           !.free_head_ = ptr,
                           !.allocated_count_ = (@ + ShiftLeft(1, kSizeBits) - 1) % ShiftLeft(1, kSizeBits)],
        mem |-> Store(m, [a \in {ptr} |-> s.free_head_])]

(***************************************************************************)
(* atomic_stack.hpp: the global chunk stack.  head_ is the tagged pointer  *)
(* [ptr, tag]; a chunk on the stack keeps its link in its first word.      *)
(* With one thread running, the CAS of push and pop succeeds at once.      *)
(***************************************************************************)
\* push that does not link the chunk to the old head
push_NoLink(h, m, chunk) ==
  IF chunk = NULL THEN [head |-> h, mem |-> m]
  ELSE [head |-> [ptr |-> chunk, tag |-> h.tag + 1],
        mem |-> Store(m, [a \in {chunk} |-> NULL])]

push(h, m, chunk) ==
  IF chunk = NULL
  THEN [head |-> h, mem |-> m]
  ELSE [head |-> [ptr |-> chunk, tag |-> h.tag + 1],
        mem |-> Store(m, [a \in {chunk} |-> h.ptr])]

\* pop that counts an attempt on an empty stack in the tag
pop_TagOnEmpty(h, m) ==
  IF h.ptr = NULL
  THEN [head |-> [h EXCEPT !.tag = @ + 1], ret |-> NULL]
  ELSE [head |-> [ptr |-> m[h.ptr], tag |-> h.tag + 1], ret |-> h.ptr]

pop(h, m) ==
  IF h.ptr = NULL
  THEN [head |-> h, ret |-> NULL]
  ELSE [head |-> [ptr |-> m[h.ptr], tag |-> h.tag + 1], ret |-> h.ptr]

(***************************************************************************)
(* The kernel.  mapped is the set of mappings [base, len] of the process.  *)
(* mmap(nullptr, len, ...) returns MAP_FAILED or the base of any free      *)
(* page-aligned range: the kernel chooses, the caller does not.            *)
(***************************************************************************)
Overlaps(b1, l1, b2, l2) == b1 < b2 + l2 /\ b2 < b1 + l1

MmapOutcomes(maps, len) ==
  {MAP_FAILED} \cup
  {b \in {k * kRegularPageSize : k \in 1..NumPages} :
     \A mp \in maps : ~Overlaps(b, len, mp.base, mp.len)}

mmap(maps, len, os) ==
  IF os = MAP_FAILED
  THEN [mapped |-> maps, ret |-> MAP_FAILED]
  ELSE [mapped |-> maps \cup {[base |-> os, len |-> len]}, ret |-> os]

\* what is left of mapping mp once [addr, addr + len) is unmapped
Remainder(mp, addr, len) ==
  (IF mp.base < addr
   THEN {[base |-> mp.base, len |-> addr - mp.base]} ELSE {})
  \cup
  (IF addr + len < mp.base + mp.len
   THEN {[base |-> addr + len, len |-> mp.base + mp.len - (addr + len)]} ELSE {})

munmap(maps, addr, len) ==
  IF addr % kRegularPageSize # 0 \/ len = 0
  THEN maps
  ELSE UNION {IF Overlaps(mp.base, mp.len, addr, len)
              THEN Remainder(mp, addr, len) ELSE {mp} : mp \in maps}

(***************************************************************************)
(* hugepage_provider.hpp.  With NEXUSALLOC_USE_HUGEPAGES the first mmap    *)
(* asks for a huge page and falls back to allocate_regular_chunk; without  *)
(* it only the latter runs.  Either way the chunk is what one mmap of      *)
(* kChunkSize bytes returned, or null.                                     *)
(***************************************************************************)
allocate_regular_chunk(maps, os) ==
  LET r == mmap(maps, kChunkSize, os)
  IN [mapped |-> r.mapped, ret |-> IF r.ret = MAP_FAILED THEN NULL ELSE r.ret]

allocate_chunk(maps, os) == allocate_regular_chunk(maps, os)

(***************************************************************************)
(* thread_arena.hpp.  The operations work on a world W = [bins, mem, head, *)
(* mapped] and return the world afterwards, the value returned (ret) and   *)
(* the system call made (sys).  os is the kernel's answer should the       *)
(* operation call mmap.                                                    *)
(***************************************************************************)
EmptyBin ==
  [current_slab |-> EmptyWrapper, partial_slabs |-> <<>>, full_slabs |-> <<>>]

Front(s) == SubSeq(s, 1, Len(s) - 1)

Last(s) == s[Len(s)]

\* s without its i-th element (vector::erase)
Erase(s, i) == SubSeq(s, 1, i - 1) \o SubSeq(s, i + 1, Len(s))

\* request_chunk that asks the chunk provider first and pops the stack only
\* when the provider returned null
request_chunk_ProviderFirst(W, os) ==
  LET c == allocate_chunk(W.mapped, os)
      p == pop(W.head, W.mem)
  IN IF c.ret # NULL
     THEN [W |-> [W EXCEPT !.mapped = c.mapped], ret |-> c.ret, sys |-> "mmap"]
     ELSE [W |-> [W EXCEPT !.head = p.head], ret |-> p.ret, sys |-> "mmap"]

\* request_chunk that reads the top of the stack without taking it off
request_chunk_Peek(W, os) ==
  IF W.head.ptr # NULL
  THEN [W |-> W, ret |-> W.head.ptr, sys |-> "none"]
  ELSE LET c == allocate_chunk(W.mapped, os)
       IN [W |-> [W EXCEPT !.mapped = c.mapped], ret |-> c.ret, sys |-> "mmap"]

request_chunk(W, os) ==
  LET p == pop(W.head, W.mem)
  IN IF p.ret # NULL
     THEN [W |-> [W EXCEPT !.head = p.head], ret |-> p.ret, sys |-> "none"]
     ELSE LET c == allocate_chunk(W.mapped, os)
          IN [W |-> [W EXCEPT !.mapped = c.mapped], ret |-> c.ret, sys |-> "mmap"]

return_chunk(W, chunk) ==
  IF chunk # NULL
  THEN LET p == push(W.head, W.mem, chunk)
       IN [W EXCEPT !.head = p.head, !.mem = p.mem]
  ELSE W

\* allocate_slow that takes the oldest partial slab instead of the newest
allocate_slow_Fifo(W, class_idx, os) ==
  LET bin0 == W.bins[class_idx]
      bin1 == IF valid(bin0.current_slab)
              THEN [bin0 EXCEPT !.full_slabs = Append(@, bin0.current_slab),
                                !.current_slab = EmptyWrapper]
              ELSE bin0
  IN IF bin1.partial_slabs # <<>>
     THEN LET a == Slab_allocate(Head(bin1.partial_slabs), W.mem)
          IN [W |-> [W EXCEPT !.bins[class_idx] =
                       [bin1 EXCEPT !.current_slab = a.slab,
                                    !.partial_slabs = Tail(@)]],
              ret |-> a.ret, sys |-> "none"]
     ELSE LET rc == request_chunk([W EXCEPT !.bins[class_idx] = bin1], os)
          IN IF rc.ret = NULL
             THEN [W |-> rc.W, ret |-> NULL, sys |-> rc.sys]
             ELSE LET c == SlabWrapper(class_idx, rc.ret, rc.W.mem)
                      a == Slab_allocate(c.slab, c.mem)
                  IN [W |-> [rc.W EXCEPT !.mem = c.mem,
                                         !.bins[class_idx].current_slab = a.slab],
                      ret |-> a.ret, sys |-> rc.sys]

allocate_slow(W, class_idx, os) ==
  LET bin0 == W.bins[class_idx]
      bin1 == IF valid(bin0.current_slab)
              THEN [bin0 EXCEPT !.full_slabs = Append(@, bin0.current_slab),
                                !.current_slab = EmptyWrapper]
              ELSE bin0
  IN IF bin1.partial_slabs # <<>>
     THEN LET a == Slab_allocate(Last(bin1.partial_slabs), W.mem)
          IN [W |-> [W EXCEPT !.bins[class_idx] =
                       [bin1 EXCEPT !.current_slab = a.slab,
                                    !.partial_slabs = Front(@)]],
              ret |-> a.ret, sys |-> "none"]
     ELSE LET rc == request_chunk([W EXCEPT !.bins[class_idx] = bin1], os)
          IN IF rc.ret = NULL
             THEN [W |-> rc.W, ret |-> NULL, sys |-> rc.sys]
             ELSE LET c == SlabWrapper(class_idx, rc.ret, rc.W.mem)
                      a == Slab_allocate(c.slab, c.mem)
                  IN [W |-> [rc.W EXCEPT !.mem = c.mem,
                                         !.bins[class_idx].current_slab = a.slab],
                      ret |-> a.ret, sys |-> rc.sys]

allocate_large(W, size, os) ==
  LET aligned_size == align_up(size, kRegularPageSize)
      r == mmap(W.mapped, aligned_size, os)
  IN [W |-> [W EXCEPT !.mapped = r.mapped],
      ret |-> IF r.ret = MAP_FAILED THEN NULL ELSE r.ret, sys |-> "mmap"]

deallocate_large(W, ptr, size) ==
  LET aligned_size == align_up(size, kRegularPageSize)
  IN [W |-> [W EXCEPT !.mapped = munmap(@, ptr, aligned_size)], sys |-> "munmap"]

\* allocate that moves the active slab to the full list as soon as it has
\* handed out its last block
allocate_RetireAtOnce(W, size, os) ==
  IF is_large(size)
  THEN allocate_large(W, size, os)
  ELSE LET class_idx == index(size)
           bin == W.bins[class_idx]
           a == Slab_allocate(bin.current_slab, W.mem)
       IN IF valid(bin.current_slab) /\ a.ret # NULL
          THEN [W |-> IF full(a.slab)
                      THEN [W EXCEPT !.bins[class_idx].current_slab = EmptyWrapper,
                                     !.bins[class_idx].full_slabs = Append(@, a.slab)]
                      ELSE [W EXCEPT !.bins[class_idx].current_slab = a.slab],
                ret |-> a.ret, sys |-> "none"]
          ELSE allocate_slow(W, class_idx, os)

allocate(W, size, os) ==
  IF is_large(size)
  THEN allocate_large(W, size, os)
  ELSE LET class_idx == index(size)
           bin == W.bins[class_idx]
           a == Slab_allocate(bin.current_slab, W.mem)
       IN IF valid(bin.current_slab) /\ a.ret # NULL
          THEN [W |-> [W EXCEPT !.bins[class_idx].current_slab = a.slab],
                ret |-> a.ret, sys |-> "none"]
          ELSE allocate_slow(W, class_idx, os)

(***************************************************************************)
(* allocator.hpp: the container adapter NexusAllocator<T>.  T is given by  *)
(* sizeof(T).  A call either returns a pointer or throws std::bad_alloc.   *)
(***************************************************************************)
\* n * sizeof(T) in size_t
ByteCount(n, sizeofT) == (n * sizeofT) % ShiftLeft(1, kSizeBits)

\* allocate(n) that hands the arena's null on to the caller
NexusAllocator_allocate_NoThrow(W, n, sizeofT, os) ==
  IF n = 0
  THEN [W |-> W, ret |-> NULL, throws |-> FALSE, sys |-> "none"]
  ELSE LET a == allocate(W, ByteCount(n, sizeofT), os)
       IN [W |-> a.W, ret |-> a.ret, throws |-> FALSE, sys |-> a.sys]

NexusAllocator_allocate(W, n, sizeofT, os) ==
  IF n = 0
  THEN [W |-> W, ret |-> NULL, throws |-> FALSE, sys |-> "none"]
  ELSE LET a == allocate(W, ByteCount(n, sizeofT), os)
       IN IF a.ret = NULL
          THEN [W |-> a.W, ret |-> NULL, throws |-> TRUE, sys |-> a.sys]
          ELSE [W |-> a.W, ret |-> a.ret, throws |-> FALSE, sys |-> a.sys]

\* operator==(const NexusAllocator<T>&, const NexusAllocator<U>&)
NexusAllocator_eq(sizeofT, sizeofU) == TRUE

\* the index of the first slab of list s whose base is slab_base, or 0
FirstWithBase(s, slab_base) ==
  LET hits == {i \in 1..Len(s) : base(s[i]) = slab_base}
  IN IF hits = {} THEN 0 ELSE CHOOSE i \in hits : \A j \in hits : i <= j

\* deallocate_slow that, when no base matches, looks for a slab whose chunk
\* contains ptr
deallocate_slow_ByContains(W, ptr, slab_base, class_idx) ==
  LET bin == W.bins[class_idx]
      i == FirstWithBase(bin.partial_slabs, slab_base)
      j == FirstWithBase(bin.full_slabs, slab_base)
      hits == {k \in 1..Len(bin.full_slabs) : contains(bin.full_slabs[k], ptr)}
      k == IF hits = {} THEN 0 ELSE CHOOSE x \in hits : \A y \in hits : x <= y
  IN IF i # 0
     THEN LET d == Slab_deallocate(bin.partial_slabs[i], W.mem, ptr)
          IN [W EXCEPT !.mem = d.mem, !.bins[class_idx].partial_slabs[i] = d.slab]
     ELSE IF j # 0 \/ k # 0
          THEN LET f == IF j # 0 THEN j ELSE k
                   d == Slab_deallocate(bin.full_slabs[f], W.mem, ptr)
               IN [W EXCEPT !.mem = d.mem,
                            !.bins[class_idx].partial_slabs = Append(@, d.slab),
                            !.bins[class_idx].full_slabs = Erase(@, f)]
          ELSE W

\* deallocate_slow that leaves a slab of the full list where it is
deallocate_slow_NoMove(W, ptr, slab_base, class_idx) ==
  LET bin == W.bins[class_idx]
      i == FirstWithBase(bin.partial_slabs, slab_base)
      j == FirstWithBase(bin.full_slabs, slab_base)
  IN IF i # 0
     THEN LET d == Slab_deallocate(bin.partial_slabs[i], W.mem, ptr)
          IN [W EXCEPT !.mem = d.mem, !.bins[class_idx].partial_slabs[i] = d.slab]
     ELSE IF j # 0
          THEN LET d == Slab_deallocate(bin.full_slabs[j], W.mem, ptr)
               IN [W EXCEPT !.mem = d.mem, !.bins[class_idx].full_slabs[j] = d.slab]
          ELSE W

deallocate_slow(W, ptr, slab_base, class_idx) ==
  LET bin == W.bins[class_idx]
      i == FirstWithBase(bin.partial_slabs, slab_base)
      j == FirstWithBase(bin.full_slabs, slab_base)
  IN IF i # 0
     THEN LET d == Slab_deallocate(bin.partial_slabs[i], W.mem, ptr)
          IN [W EXCEPT !.mem = d.mem, !.bins[class_idx].partial_slabs[i] = d.slab]
     ELSE IF j # 0
          THEN LET d == Slab_deallocate(bin.full_slabs[j], W.mem, ptr)
               IN [W EXCEPT !.mem = d.mem,
                            !.bins[class_idx].partial_slabs = Append(@, d.slab),
                            !.bins[class_idx].full_slabs = Erase(@, j)]
          ELSE W

\* deallocate without its test for nullptr
deallocate_NoNullTest(W, ptr, size) ==
  IF is_large(size)
  THEN deallocate_large(W, ptr, size)
  ELSE [W |-> deallocate_slow(W, ptr, slab_base_from_ptr(ptr), index(size)),
        sys |-> "none"]

deallocate(W, ptr, size) ==
  IF ptr = NULL
  THEN [W |-> W, sys |-> "none"]
  ELSE IF is_large(size)
       THEN deallocate_large(W, ptr, size)
       ELSE LET class_idx == index(size)
                bin == W.bins[class_idx]
                slab_base == slab_base_from_ptr(ptr)
            IN IF valid(bin.current_slab) /\ base(bin.current_slab) = slab_base
               THEN LET d == Slab_deallocate(bin.current_slab, W.mem, ptr)
                    IN [W |-> [W EXCEPT !.mem = d.mem,
                                        !.bins[class_idx].current_slab = d.slab],
                        sys |-> "none"]
               ELSE [W |-> deallocate_slow(W, ptr, slab_base, class_idx),
                     sys |-> "none"]

\* the chunks ~ThreadArena returns, in the order it returns them
\* a destructor that forgets the full slabs
RECURSIVE BinChunks_NoFull(_, _)
BinChunks_NoFull(bs, c) ==
  IF c = kNumClasses THEN <<>>
  ELSE LET bin == bs[c]
           cur == IF valid(bin.current_slab) THEN <<base(bin.current_slab)>> ELSE <<>>
           part == [i \in 1..Len(bin.partial_slabs) |-> base(bin.partial_slabs[i])]
       IN cur \o part \o BinChunks_NoFull(bs, c + 1)

RECURSIVE BinChunks(_, _)
BinChunks(bs, c) ==
  IF c = kNumClasses THEN <<>>
  ELSE LET bin == bs[c]
           cur == IF valid(bin.current_slab) THEN <<base(bin.current_slab)>> ELSE <<>>
           part == [i \in 1..Len(bin.partial_slabs) |-> base(bin.partial_slabs[i])]
           ful == [i \in 1..Len(bin.full_slabs) |-> base(bin.full_slabs[i])]
       IN cur \o part \o ful \o BinChunks(bs, c + 1)

RECURSIVE ReturnAll(_, _)
ReturnAll(W, chunks) ==
  IF chunks = <<>> THEN W
  ELSE ReturnAll(return_chunk(W, Head(chunks)), Tail(chunks))

\* ~ThreadArena(): every slab's chunk goes to the global stack
destroy_arena(W) == ReturnAll(W, BinChunks(W.bins, 0))

(***************************************************************************)
(* The state.  bins, mem, head and mapped are the program's: the running   *)
(* thread's arena, the first words written in chunk memory, the global     *)
(* stack's head and the process's mappings.  live is the caller's record   *)
(* of the blocks it holds (pointer and requested size).  sc is a call of   *)
(* the size-class functions: its argument and the results computed so far. *)
(* bm is a Bitmap<N> used on its own: N and its words.                     *)
(*                                                                         *)
(* For the threads that push and pop on the global stack concurrently:     *)
(* pc[t] is the place of thread t in push or pop, old_head[t], new_head[t] *)
(* and new_node[t] are its locals of those names, held[t] is the set of    *)
(* chunks it owns.  bal[c] counts the pushes of chunk c that succeeded     *)
(* minus the pops that returned it.                                        *)
(*                                                                         *)
(* For the threads that allocate and free through the process-wide API:    *)
(* arenas[t] is the bins_ of thread t's thread_local arena, phase[t] says  *)
(* whether thread t is not started, running or inside ~ThreadArena,        *)
(* leaving[t] is the chunks its destructor has still to return, and        *)
(* outstanding is the blocks allocated and not freed, each with the thread *)
(* that allocated it (0 once that thread has ended).                       *)
(***************************************************************************)
VARIABLES bins, mem, head, mapped, live, sc, bm,
          pc, old_head, new_head, new_node, held, bal,
          arenas, phase, leaving, outstanding

arenaVars == <<bins, mem, head, mapped, live>>

sizeVars == <<sc, bm>>

stackVars == <<pc, old_head, new_head, new_node, held, bal>>

threadVars == <<arenas, phase, leaving, outstanding>>

\* what the arena's operations do not touch
outsideArena == <<sizeVars, stackVars, threadVars>>

vars == <<arenaVars, sizeVars, stackVars, threadVars>>

World == [bins |-> bins, mem |-> mem, head |-> head, mapped |-> mapped]

\* the sizes the caller asks for: class 0 (16 B, four blocks to the chunk) and
\* class 2 (48 B, one block to the chunk and 16 bytes left over)
SmallSizes == {0, 40}
\* one size of the large path
LargeSizes == {kMaxSlabSize + 1}
\* the sizes a caller may pass to deallocate: 16 is of the class of 0, 48 of
\* the class of 40
FreeSizes == SmallSizes \cup LargeSizes \cup {16, 48}

\* the kernel's possible answers to the mmap that allocate(size) may make
OsAnswers(W, size) ==
  MmapOutcomes(W.mapped, IF is_large(size)
                         THEN align_up(size, kRegularPageSize) ELSE kChunkSize)

(***************************************************************************)
(* internal/bitmap.hpp: Bitmap<NumBits>, the fixed-size bit array of the   *)
(* slab's occupancy.  A bitmap is [N, words_]: N is NumBits and words_[i]  *)
(* is the i-th word, an unsigned integer of kBitsPerWord bits (64 in the   *)
(* source, scaled down here together with the sizes NumBits).  The         *)
(* bitwise operations are computed on the integers.                        *)
(***************************************************************************)
kBitsPerWord == 4

kNumWords(NumBits) == (NumBits + kBitsPerWord - 1) \div kBitsPerWord

\* std::numeric_limits<uint64_t>::max()
WordMax == ShiftLeft(1, kBitsPerWord) - 1

\* (word >> bit_idx) & 1
BitOf(word, bit_idx) == (word \div ShiftLeft(1, bit_idx)) % 2

RECURSIVE popcount(_)
popcount(word) == IF word = 0 THEN 0 ELSE (word % 2) + popcount(word \div 2)

RECURSIVE countr_zero(_)
\* the number of trailing zero bits of word # 0
countr_zero(word) == IF word % 2 = 1 THEN 0 ELSE 1 + countr_zero(word \div 2)

\* {word_idx, bit_idx} of an index
decompose(idx) == <<idx \div kBitsPerWord, idx % kBitsPerWord>>

\* Bitmap<NumBits>(): every word is zero
Bitmap(NumBits) ==
  [N |-> NumBits, words_ |-> [i \in 0..(kNumWords(NumBits) - 1) |-> 0]]

\* no bitmap has been constructed
NoBitmap == [N |-> 0, words_ |-> <<>>]

\* words_[word_idx] |= (1ULL << bit_idx)
Bitmap_set(b, idx) ==
  LET d == decompose(idx)
  IN [b EXCEPT !.words_[d[1]] =
        IF BitOf(@, d[2]) = 1 THEN @ ELSE @ + ShiftLeft(1, d[2])]

\* words_[word_idx] &= ~(1ULL << bit_idx)
Bitmap_clear(b, idx) ==
  LET d == decompose(idx)
  IN [b EXCEPT !.words_[d[1]] =
        IF BitOf(@, d[2]) = 1 THEN @ - ShiftLeft(1, d[2]) ELSE @]

Bitmap_test(b, idx) ==
  LET d == decompose(idx)
  IN BitOf(b.words_[d[1]], d[2]) # 0

RECURSIVE CountFrom(_, _)
\* the sum of the popcounts of words_[i], words_[i + 1], ...
CountFrom(b, i) ==
  IF i \notin DOMAIN b.words_ THEN 0
  ELSE popcount(b.words_[i]) + CountFrom(b, i + 1)

Bitmap_count(b) == CountFrom(b, 0)

Bitmap_none(b) == \A i \in DOMAIN b.words_ : b.words_[i] = 0

\* all() that compares the last word with a full word whatever NumBits is
Bitmap_all_FullLastWord(b) ==
  \A i \in 0..(kNumWords(b.N) - 1) : b.words_[i] = WordMax

\* all(): the words before the last are full and the last word equals the
\* mask of its used bits
Bitmap_all(b) ==
  LET last_word_bits == b.N % kBitsPerWord
  IN /\ \A i \in 0..(kNumWords(b.N) - 2) : b.words_[i] = WordMax
     /\ IF last_word_bits = 0
        THEN b.words_[kNumWords(b.N) - 1] = WordMax
        ELSE b.words_[kNumWords(b.N) - 1] = ShiftLeft(1, last_word_bits) - 1

\* find_first_clear(): the first word that is not full decides
Bitmap_find_first_clear(b) ==
  LET open == {i \in 0..(kNumWords(b.N) - 1) : WordMax - b.words_[i] # 0}
  IN IF open = {} THEN b.N
     ELSE LET i == CHOOSE k \in open : \A j \in open : k <= j
              inverted == WordMax - b.words_[i]
              bit_in_word == countr_zero(inverted)
              global_idx == i * kBitsPerWord + bit_in_word
          IN IF global_idx < b.N THEN global_idx ELSE b.N

\* reset(): words_.fill(0)
Bitmap_reset(b) == [b EXCEPT !.words_ = [i \in DOMAIN @ |-> 0]]

\* no call of the size-class functions is under way
NoCall == [kind |-> "none", arg |-> 0, idx |-> <<>>, large |-> <<>>, bs |-> <<>>]

ArenaInit ==
  /\ bins = [c \in 0..(kNumClasses - 1) |-> EmptyBin]
  /\ mem = <<>>
  /\ head = [ptr |-> NULL, tag |-> 0]
  /\ mapped = {}
  /\ live = {}

Threads == 1..NumThreads

\* the chunks the threads pass through the stack
Chunks == {k * kChunkSize : k \in 1..NumChunks}

NullHead == [ptr |-> NULL, tag |-> 0]

\* every thread is outside push and pop; thread t owns the chunks own[t]
StackIdle(own) ==
  /\ pc = [t \in Threads |-> "idle"]
  /\ old_head = [t \in Threads |-> NullHead]
  /\ new_head = [t \in Threads |-> NullHead]
  /\ new_node = [t \in Threads |-> NULL]
  /\ held = own
  /\ bal = [c \in Chunks |-> 0]

\* no thread of the process has started: no thread_local arena exists
NoArenas ==
  /\ arenas = [t \in Threads |-> [c \in 0..(kNumClasses - 1) |-> EmptyBin]]
  /\ phase = [t \in Threads |-> "none"]
  /\ leaving = [t \in Threads |-> <<>>]
  /\ outstanding = {}

Init ==
  /\ ArenaInit
  /\ sc = NoCall
  /\ bm = NoBitmap
  /\ StackIdle([t \in Threads |-> {}])
  /\ NoArenas

\* p = allocate(size); the caller keeps a non-null p
Allocate(size) ==
  /\ Cardinality(live) < MaxLive
  /\ \E os \in OsAnswers(World, size) :
       LET r == allocate(World, size, os)
       IN /\ r.W.head.tag <= MaxTag
          /\ bins' = r.W.bins
          /\ mem' = r.W.mem
          /\ head' = r.W.head
          /\ mapped' = r.W.mapped
          /\ live' = IF r.ret = NULL THEN live
                     ELSE live \cup {[ptr |-> r.ret, size |-> size]}
  /\ UNCHANGED outsideArena

\* deallocate(a.ptr, size) of a block the caller holds, with a size of its class
Deallocate(a, size) ==
  /\ a \in live
  /\ IF is_large(a.size) THEN size = a.size
     ELSE ~is_large(size) /\ index(size) = index(a.size)
  /\ LET r == deallocate(World, a.ptr, size)
     IN /\ bins' = r.W.bins
        /\ mem' = r.W.mem
        /\ head' = r.W.head
        /\ mapped' = r.W.mapped
  /\ live' = live \ {a}
  /\ UNCHANGED outsideArena

\* deallocate(nullptr, size)
DeallocateNull(size) ==
  /\ LET r == deallocate(World, NULL, size)
     IN /\ bins' = r.W.bins
        /\ mem' = r.W.mem
        /\ head' = r.W.head
        /\ mapped' = r.W.mapped
  /\ UNCHANGED live
  /\ UNCHANGED outsideArena

\* the thread exits: its arena is destroyed, and the next thread to run
\* starts with an arena of its own; the slab blocks still held are lost
ThreadExit ==
  /\ LET W == destroy_arena(World)
     IN /\ W.head.tag <= MaxTag
        /\ mem' = W.mem
        /\ head' = W.head
        /\ mapped' = W.mapped
  /\ bins' = [c \in 0..(kNumClasses - 1) |-> EmptyBin]
  /\ live' = {a \in live : is_large(a.size)}
  /\ UNCHANGED outsideArena

\* NexusAllocator<T>::deallocate(ptr, n)
NexusAllocator_deallocate(W, ptr, n, sizeofT) ==
  IF ptr = NULL
  THEN [W |-> W, sys |-> "none"]
  ELSE deallocate(W, ptr, ByteCount(n, sizeofT))

\* the calls NexusAllocator<T>::allocate(n) the containers make, each as
\* <<n, sizeof(T)>>: no element, one element of 40 bytes, five of 8 bytes,
\* so many of 8 bytes that the byte count wraps to 0, one of the large path
ContainerCalls ==
  {<<0, 8>>, <<1, 40>>, <<5, 8>>, <<ShiftLeft(1, kSizeBits - 3), 8>>,
   <<1, kMaxSlabSize + 1>>}

\* p = NexusAllocator<T>().allocate(n); the container keeps p unless the call
\* threw or returned null
ContainerAllocate(n, sizeofT) ==
  /\ Cardinality(live) < MaxLive
  /\ \E os \in OsAnswers(World, ByteCount(n, sizeofT)) :
       LET r == NexusAllocator_allocate(World, n, sizeofT, os)
       IN /\ r.W.head.tag <= MaxTag
          /\ bins' = r.W.bins
          /\ mem' = r.W.mem
          /\ head' = r.W.head
          /\ mapped' = r.W.mapped
          /\ live' = IF r.throws \/ r.ret = NULL THEN live
                     ELSE live \cup {[ptr |-> r.ret, size |-> ByteCount(n, sizeofT)]}
  /\ UNCHANGED outsideArena

Next ==
  \/ \E size \in SmallSizes \cup LargeSizes : Allocate(size)
  \/ \E call \in ContainerCalls : ContainerAllocate(call[1], call[2])
  \/ \E a \in live : \E size \in FreeSizes : Deallocate(a, size)
  \/ \E size \in FreeSizes : DeallocateNull(size)
  \/ ThreadExit

Spec == Init /\ [][Next]_vars

(***************************************************************************)
(* What the properties below speak about.                                  *)
(***************************************************************************)
Range(s) == {s[i] : i \in 1..Len(s)}

\* the slabs a bin holds: the active one, the partial ones, the full ones
SlabsOf(bin) ==
  (IF valid(bin.current_slab) THEN {bin.current_slab} ELSE {})
  \cup Range(bin.partial_slabs) \cup Range(bin.full_slabs)

\* the blocks the caller holds that came from a slab
SmallLive == {a \in live : ~is_large(a.size)}

\* the size of the block that serves a request of `size` bytes
BlockBytes(size) == block_size(index(size))

\* the slabs of bin[class_idx] of world W that contain ptr
OwnersIn(W, class_idx, ptr) ==
  {s \in SlabsOf(W.bins[class_idx]) : contains(s, ptr)}

(***************************************************************************)
(* C1.  No two outstanding allocations alias: the byte ranges              *)
(* [p, p + block_size(index(size))) of the blocks the caller holds are     *)
(* pairwise disjoint, across all size classes and slabs, and whatever      *)
(* allocate returns next is disjoint from every one of them.               *)
(***************************************************************************)
C1_NoAlias ==
  /\ \A a, b \in SmallLive :
       a # b => ~Overlaps(a.ptr, BlockBytes(a.size), b.ptr, BlockBytes(b.size))
  /\ \A size \in SmallSizes : \A os \in OsAnswers(World, size) :
       LET r == allocate(World, size, os)
       IN r.ret # NULL =>
            \A a \in SmallLive :
              ~Overlaps(r.ret, BlockBytes(size), a.ptr, BlockBytes(a.size))

\* three blocks are held: two of one slab, and one of another class
C1_Witness ==
  \E a, b, c \in SmallLive :
    /\ a # b
    /\ index(a.size) = index(b.size)
    /\ slab_base_from_ptr(a.ptr) = slab_base_from_ptr(b.ptr)
    /\ index(c.size) # index(a.size)
    /\ \E s \in SlabsOf(bins[index(a.size)]) : s.free_head_ # NULL

(***************************************************************************)
(* C4.  Every non-null pointer allocate returns is 16-byte aligned, for    *)
(* the slab classes and for the large path: the pointers the caller holds  *)
(* and the pointer allocate would return next.                             *)
(***************************************************************************)
C4_Aligned16 ==
  /\ \A a \in live : a.ptr % 16 = 0
  /\ \A size \in SmallSizes \cup LargeSizes : \A os \in OsAnswers(World, size) :
       LET r == allocate(World, size, os)
       IN r.ret # NULL => r.ret % 16 = 0

\* a large mapping and a slab block that is not the first of its chunk are held
C4_Witness ==
  /\ \E a \in live : is_large(a.size)
  /\ \E a \in SmallLive : a.ptr # slab_base_from_ptr(a.ptr) /\ a.ptr % kRegularPageSize # 0

\* ptr is the start of a block of slab s, which is of the class of `size`
IsBlockOf(s, ptr, size) ==
  /\ valid(s)
  /\ s.class_idx_ = index(size)
  /\ BlockBytes(size) >= size
  /\ BlockBytes(size) > 0
  /\ base(s) <= ptr
  /\ (ptr - base(s)) % BlockBytes(size) = 0
  /\ ptr + BlockBytes(size) <= base(s) + kChunkSize

(***************************************************************************)
(* C5.  A block the caller got for a size <= 65536 is the start of a block *)
(* of a slab held by bin[index(size)], is block_size(index(size)) >= size  *)
(* bytes long, and lies wholly inside that slab's chunk.                   *)
(***************************************************************************)
C5_BlockInOwnSlab ==
  /\ \A a \in SmallLive :
       \E s \in SlabsOf(bins[index(a.size)]) : IsBlockOf(s, a.ptr, a.size)
  /\ \A size \in SmallSizes : \A os \in OsAnswers(World, size) :
       LET r == allocate(World, size, os)
       IN r.ret # NULL =>
            \E s \in SlabsOf(r.W.bins[index(size)]) : IsBlockOf(s, r.ret, size)

\* a 48-byte block (a size that does not divide the chunk) is held for a
\* request of 40 bytes, in a slab that has been retired to the full list
C5_Witness ==
  \E a \in SmallLive :
    /\ a.size = 40
    /\ kChunkSize % BlockBytes(a.size) # 0
    /\ \E s \in Range(bins[index(a.size)].full_slabs) : contains(s, a.ptr)

(***************************************************************************)
(* C9.  deallocate(nullptr, size) is a no-op for every size, those above   *)
(* 65536 included: bins, memory, the global stack and the mappings stay as *)
(* they are and no system call is made.                                    *)
(***************************************************************************)
C9_NullFreeNoop ==
  \A size \in FreeSizes \cup {1, kMaxSlabSize, 2 * kMaxSlabSize} :
    deallocate(World, NULL, size) = [W |-> World, sys |-> "none"]

\* there is something a stray deallocation could damage: an active slab with
\* a block out and a large mapping still held
C9_Witness ==
  /\ \E a \in SmallLive : contains(bins[index(a.size)].current_slab, a.ptr)
  /\ \E a \in live : is_large(a.size)

(***************************************************************************)
(* C3.  Every chunk an arena builds a slab on is aligned to the chunk      *)
(* size, so that for every block a slab handed out, slab_base_from_ptr of  *)
(* the block is exactly the base() of that slab.                           *)
(***************************************************************************)
C3_ChunkAligned ==
  /\ \A c \in DOMAIN bins : \A s \in SlabsOf(bins[c]) :
       base(s) % kChunkSize = 0
  /\ \A a \in SmallLive : \A s \in OwnersIn(World, index(a.size), a.ptr) :
       slab_base_from_ptr(a.ptr) = base(s)

\* the blocks of slab s that are free, by its occupancy bitmap
FreeBlocks(s) ==
  LET BlockSize == kBlockSizeForClass(s.class_idx_)
  IN {s.base_ + i * BlockSize :
        i \in (0..(kBlocksPerSlab(BlockSize) - 1)) \ s.occupancy_}

\* ptr is free in slab t, at the head of its free list
ReleasedIn(t, ptr) ==
  /\ contains(t, ptr)
  /\ block_index(t, ptr) \notin t.occupancy_
  /\ ptr \in FreeBlocks(t)
  /\ t.free_head_ = ptr

(***************************************************************************)
(* C2.  deallocate(p, size) on a block p the caller holds, with a size of  *)
(* the same class, releases it: afterwards p is free in the slab it came   *)
(* from (bit clear, head of the free list) and the slab's allocated count  *)
(* is one lower, wherever the slab is: active, partial or full.            *)
(***************************************************************************)
C2_DeallocateReleases ==
  \A a \in SmallLive : \A size \in FreeSizes :
    (~is_large(size) /\ index(size) = index(a.size)) =>
      \A s \in OwnersIn(World, index(a.size), a.ptr) :
        LET W2 == deallocate(World, a.ptr, size).W
        IN \E t \in OwnersIn(W2, index(a.size), a.ptr) :
             /\ base(t) = base(s)
             /\ ReleasedIn(t, a.ptr)
             /\ t.allocated_count_ = s.allocated_count_ - 1

(***************************************************************************)
(* C6.  In every reachable state, p = allocate(s); deallocate(p, s);       *)
(* q = allocate(s) with p non-null gives q = p, whatever path the first    *)
(* allocate took.                                                          *)
(***************************************************************************)
C6_AllocFreeAllocSame ==
  \A size \in SmallSizes : \A os \in OsAnswers(World, size) :
    LET r == allocate(World, size, os)
    IN r.ret # NULL =>
         LET W2 == deallocate(r.W, r.ret, size).W
         IN \A os2 \in OsAnswers(W2, size) :
              allocate(W2, size, os2).ret = r.ret

\* what an arena holds: for each class the slabs, each with its free blocks
ArenaView(W) ==
  [c \in DOMAIN W.bins |->
     {[base |-> base(s), free |-> FreeBlocks(s)] : s \in SlabsOf(W.bins[c])}]

(***************************************************************************)
(* C7.  In every reachable state, p = allocate(s) followed at once by      *)
(* deallocate(p, s) leaves the arena as it was: the same slabs, each with  *)
(* the same free blocks, also when the allocate took the slow path.        *)
(***************************************************************************)
C7_AllocFreeRestores ==
  \A size \in SmallSizes : \A os \in OsAnswers(World, size) :
    LET r == allocate(World, size, os)
    IN r.ret # NULL =>
         ArenaView(deallocate(r.W, r.ret, size).W) = ArenaView(World)

\* every way k allocations of `size` in a row can go: the world afterwards
\* and the pointers returned, in order
RECURSIVE Batches(_, _, _)
Batches(W, size, k) ==
  IF k = 0 THEN {[W |-> W, ptrs |-> <<>>]}
  ELSE UNION {{LET r == allocate(b.W, size, os)
               IN [W |-> r.W, ptrs |-> Append(b.ptrs, r.ret)] :
                 os \in OsAnswers(b.W, size)} :
                b \in Batches(W, size, k - 1)}

\* the world after deallocate(ptrs[i], size) for each i, in order
RECURSIVE FreeAll(_, _, _)
FreeAll(W, size, ptrs) ==
  IF ptrs = <<>> THEN W
  ELSE FreeAll(deallocate(W, Head(ptrs), size).W, size, Tail(ptrs))

(***************************************************************************)
(* C8.  On an arena with no block of a class outstanding, allocating k     *)
(* blocks of the class, freeing all k and allocating k again returns only  *)
(* addresses of the first batch, for every k up to MaxBatch.               *)
(***************************************************************************)
C8_BatchReuse ==
  \A size \in SmallSizes :
    (\A a \in SmallLive : index(a.size) # index(size)) =>
      \A k \in 1..MaxBatch : \A b1 \in Batches(World, size, k) :
        (\A i \in 1..k : b1.ptrs[i] # NULL) =>
          \A b2 \in Batches(FreeAll(b1.W, size, b1.ptrs), size, k) :
            \A i \in 1..k :
              b2.ptrs[i] # NULL => b2.ptrs[i] \in Range(b1.ptrs)

(***************************************************************************)
(* C10.  allocate(0) returns a non-null block of class 0 (16 bytes)        *)
(* whenever a chunk is available, distinct from every other block held,    *)
(* and deallocate(ptr, 0) returns exactly that block to the class-0 bin.   *)
(***************************************************************************)
C10_ZeroSize ==
  \A os \in OsAnswers(World, 0) :
    LET r == allocate(World, 0, os)
    IN /\ os # MAP_FAILED => r.ret # NULL
       /\ r.ret # NULL =>
            /\ \E s \in SlabsOf(r.W.bins[0]) : IsBlockOf(s, r.ret, 0)
            /\ BlockBytes(0) = 16
            /\ \A a \in SmallLive :
                 ~Overlaps(r.ret, BlockBytes(0), a.ptr, BlockBytes(a.size))
            /\ LET W2 == deallocate(r.W, r.ret, 0).W
               IN \E t \in OwnersIn(W2, 0, r.ret) : ReleasedIn(t, r.ret)

(***************************************************************************)
(* C11.  Routing at the large threshold: a request of n <= 65536 bytes     *)
(* goes to bin[index(n)] and touches no other bin (65536 itself is of      *)
(* class 23, the last one), while a request of n > 65536 bytes goes to the *)
(* large path, which leaves every bin, every slab's memory and the global  *)
(* chunk stack as they were, on allocate and on deallocate.                *)
(***************************************************************************)
C11_LargeRouting ==
  /\ index(kMaxSlabSize) = kNumClasses - 1
  /\ ~is_large(kMaxSlabSize)
  /\ is_large(kMaxSlabSize + 1)
  /\ \A size \in LargeSizes \cup {2 * kMaxSlabSize} :
       \A os \in OsAnswers(World, size) :
         LET r == allocate(World, size, os)
         IN /\ r.W.bins = bins /\ r.W.mem = mem /\ r.W.head = head
            /\ r.sys = "mmap"
  /\ \A a \in live :
       is_large(a.size) =>
         LET r == deallocate(World, a.ptr, a.size)
         IN /\ r.W.bins = bins /\ r.W.mem = mem /\ r.W.head = head
            /\ r.sys = "munmap"
  /\ \A size \in SmallSizes : \A os \in OsAnswers(World, size) :
       LET r == allocate(World, size, os)
       IN \A c \in DOMAIN bins : c # index(size) => r.W.bins[c] = bins[c]
  /\ \A a \in SmallLive :
       LET r == deallocate(World, a.ptr, a.size)
       IN /\ r.sys = "none"
          /\ \A c \in DOMAIN bins : c # index(a.size) => r.W.bins[c] = bins[c]

\* a large block is held while the global stack holds a chunk that a slab
\* has used
C11_Witness ==
  /\ \E a \in live : is_large(a.size)
  /\ head.ptr # NULL
  /\ mem # <<>>

\* the invariants of the bins of world W: a partial slab has a free block, a
\* full slab has none, and no slab is held twice
BinInvariants(W) ==
  \A c \in DOMAIN W.bins :
    LET bin == W.bins[c]
    IN /\ \A s \in Range(bin.partial_slabs) :
            valid(s) /\ ~full(s) /\ FreeBlocks(s) # {}
       /\ \A s \in Range(bin.full_slabs) :
            valid(s) /\ full(s) /\ FreeBlocks(s) = {}
       /\ Cardinality({base(s) : s \in SlabsOf(bin)})
            = (IF valid(bin.current_slab) THEN 1 ELSE 0)
              + Len(bin.partial_slabs) + Len(bin.full_slabs)

\* block a is still allocated in a slab of its bin in world W
StillHeld(W, a) ==
  \E s \in SlabsOf(W.bins[index(a.size)]) :
    IsBlockOf(s, a.ptr, a.size) /\ block_index(s, a.ptr) \in s.occupancy_

\* nothing can serve a request of `size`: no usable active slab, no partial
\* slab, an empty global stack and a chunk provider that answers null
Exhausted(W, size, os) ==
  LET bin == W.bins[index(size)]
  IN /\ ~valid(bin.current_slab) \/ full(bin.current_slab)
     /\ bin.partial_slabs = <<>>
     /\ pop(W.head, W.mem).ret = NULL
     /\ allocate_chunk(W.mapped, os).ret = NULL

(***************************************************************************)
(* C12.  allocate(size) with size <= 65536 returns null exactly when the   *)
(* bin's active slab is absent or full, its partial list is empty, the     *)
(* global stack is empty and the chunk provider returns null.  After a     *)
(* null return every block held is still allocated, the bin invariants     *)
(* hold, and a later allocate succeeds once a chunk is available or a      *)
(* block of the class has been freed.                                      *)
(***************************************************************************)
C12_NullOnlyWhenExhausted ==
  /\ BinInvariants(World)
  /\ \A size \in SmallSizes : \A os \in OsAnswers(World, size) :
       LET r == allocate(World, size, os)
       IN /\ (r.ret = NULL) <=> Exhausted(World, size, os)
          /\ r.ret = NULL =>
               /\ \A a \in SmallLive : StillHeld(r.W, a)
               /\ BinInvariants(r.W)
               /\ \A os2 \in OsAnswers(r.W, size) :
                    os2 # MAP_FAILED => allocate(r.W, size, os2).ret # NULL
               /\ \A a \in SmallLive :
                    index(a.size) = index(size) =>
                      LET W2 == deallocate(r.W, a.ptr, a.size).W
                      IN allocate(W2, size, MAP_FAILED).ret # NULL

(***************************************************************************)
(* The size-class functions on their own: a call is drawn (a size for      *)
(* index and is_large, or a class index for block_size) and the functions  *)
(* are applied to it.                                                      *)
(***************************************************************************)
SizeClassInit ==
  /\ ArenaInit
  /\ bm = NoBitmap
  /\ StackIdle([t \in Threads |-> {}])
  /\ NoArenas
  /\ sc \in {[NoCall EXCEPT !.kind = "size", !.arg = n] : n \in 0..MaxRequest}
            \cup {[NoCall EXCEPT !.kind = "index", !.arg = i] : i \in 0..MaxIndex}

\* idx = SizeClass::index(size)
CallIndex ==
  /\ sc.kind = "size" /\ sc.idx = <<>>
  /\ sc' = [sc EXCEPT !.idx = <<index(sc.arg)>>]
  /\ UNCHANGED <<arenaVars, bm, stackVars, threadVars>>

\* SizeClass::is_large(size)
CallIsLarge ==
  /\ sc.kind = "size" /\ sc.large = <<>>
  /\ sc' = [sc EXCEPT !.large = <<is_large(sc.arg)>>]
  /\ UNCHANGED <<arenaVars, bm, stackVars, threadVars>>

\* SizeClass::block_size(idx), of the index computed or of the index drawn
CallBlockSize ==
  /\ sc.bs = <<>>
  /\ \/ sc.kind = "size" /\ sc.idx # <<>>
        /\ sc' = [sc EXCEPT !.bs = <<block_size(sc.idx[1])>>]
     \/ sc.kind = "index"
        /\ sc' = [sc EXCEPT !.bs = <<block_size(sc.arg)>>]
  /\ UNCHANGED <<arenaVars, bm, stackVars, threadVars>>

SizeClassNext == CallIndex \/ CallIsLarge \/ CallBlockSize

SizeClassSpec == SizeClassInit /\ [][SizeClassNext]_vars

TableValue(idx) ==
  IF idx < 16 THEN 16 * (idx + 1) ELSE 512 * 2 ^ (idx - 16)

compare_exchange_weak_NoReload(h, expected, desired, spurious) ==
  IF h = expected /\ ~spurious
  THEN [head |-> desired, expected |-> expected, ok |-> TRUE]
  ELSE [head |-> h, expected |-> expected, ok |-> FALSE]

\* a compare-and-swap that compares the pointers and not the tags
compare_exchange_weak_PtrOnly(h, expected, desired, spurious) ==
  IF h.ptr = expected.ptr /\ ~spurious
  THEN [head |-> desired, expected |-> expected, ok |-> TRUE]
  ELSE [head |-> h, expected |-> h, ok |-> FALSE]

\* head_.compare_exchange_weak(expected, desired): h is head_; on failure,
\* which may be spurious, expected is replaced by the value of head_
compare_exchange_weak(h, expected, desired, spurious) ==
  IF h = expected /\ ~spurious
  THEN [head |-> desired, expected |-> expected, ok |-> TRUE]
  ELSE [head |-> h, expected |-> h, ok |-> FALSE]

\* the threads that are inside push or pop
InFlight == {t \in Threads : pc[t] # "idle"}

\* a thread may enter push or pop
MayStart(t) ==
  /\ pc[t] = "idle"
  /\ head.tag + Cardinality(InFlight) < MaxStackOps

StackInit ==
  /\ ArenaInit
  /\ sc = NoCall
  /\ bm = NoBitmap
  /\ NoArenas
  /\ \E owner \in [Chunks -> Threads] :
       StackIdle([t \in Threads |-> {c \in Chunks : owner[c] = t}])

\* push(chunk): the null test and the load of head_
PushStart(t, chunk) ==
  /\ MayStart(t)
  /\ chunk \in held[t] \cup {NULL}
  /\ IF chunk = NULL
     THEN UNCHANGED <<pc, old_head, new_node>>
     ELSE /\ new_node' = [new_node EXCEPT ![t] = chunk]
          /\ old_head' = [old_head EXCEPT ![t] = head]
          /\ pc' = [pc EXCEPT ![t] = "push_body"]
  /\ UNCHANGED <<bins, mem, head, mapped, live, sizeVars, threadVars, new_head, held, bal>>

\* a loop body of push that does not link the chunk to the head it saw
PushBody_NoLink(t) ==
  /\ pc[t] = "push_body"
  /\ new_head' = [new_head EXCEPT ![t] = [ptr |-> new_node[t],
                                          tag |-> old_head[t].tag + 1]]
  /\ pc' = [pc EXCEPT ![t] = "push_cas"]
  /\ UNCHANGED <<bins, mem, head, mapped, live, sizeVars, threadVars, old_head, new_node, held, bal>>

\* push: the body of the loop
PushBody(t) ==
  /\ pc[t] = "push_body"
  /\ mem' = Store(mem, [a \in {new_node[t]} |-> old_head[t].ptr])
  /\ new_head' = [new_head EXCEPT ![t] = [ptr |-> new_node[t],
                                          tag |-> old_head[t].tag + 1]]
  /\ pc' = [pc EXCEPT ![t] = "push_cas"]
  /\ UNCHANGED <<bins, head, mapped, live, sizeVars, threadVars, old_head, new_node, held, bal>>

\* push that returns after its first compare-and-swap, failed or not
PushCas_NoRetry(t) ==
  /\ pc[t] = "push_cas"
  /\ \E spurious \in BOOLEAN :
       LET r == compare_exchange_weak(head, old_head[t], new_head[t], spurious)
       IN /\ head' = r.head
          /\ old_head' = [old_head EXCEPT ![t] = r.expected]
          /\ pc' = [pc EXCEPT ![t] = "idle"]
          /\ held' = [held EXCEPT ![t] = @ \ {new_node[t]}]
          /\ bal' = [bal EXCEPT ![new_node[t]] = IF r.ok THEN @ + 1 ELSE @]
  /\ UNCHANGED <<bins, mem, mapped, live, sizeVars, threadVars, new_head, new_node>>

\* push: the compare-and-swap that ends the loop or repeats it
PushCas(t) ==
  /\ pc[t] = "push_cas"
  /\ \E spurious \in BOOLEAN :
       LET r == compare_exchange_weak(head, old_head[t], new_head[t], spurious)
       IN /\ head' = r.head
          /\ old_head' = [old_head EXCEPT ![t] = r.expected]
          /\ IF r.ok
             THEN /\ pc' = [pc EXCEPT ![t] = "idle"]
                  /\ held' = [held EXCEPT ![t] = @ \ {new_node[t]}]
                  /\ bal' = [bal EXCEPT ![new_node[t]] = @ + 1]
             ELSE /\ pc' = [pc EXCEPT ![t] = "push_body"]
                  /\ UNCHANGED <<held, bal>>
  /\ UNCHANGED <<bins, mem, mapped, live, sizeVars, threadVars, new_head, new_node>>

\* pop(): the load of head_
PopStart(t) ==
  /\ MayStart(t)
  /\ old_head' = [old_head EXCEPT ![t] = head]
  /\ pc' = [pc EXCEPT ![t] = "pop_body"]
  /\ UNCHANGED <<arenaVars, sizeVars, threadVars, new_head, new_node, held, bal>>

\* pop: the body of the loop; it returns nullptr from an empty stack, and
\* otherwise reads the link of the chunk it saw at the head
PopBody(t) ==
  /\ pc[t] = "pop_body"
  /\ IF old_head[t].ptr = NULL
     THEN /\ pc' = [pc EXCEPT ![t] = "idle"]
          /\ UNCHANGED new_head
     ELSE /\ new_head' = [new_head EXCEPT ![t] = [ptr |-> mem[old_head[t].ptr],
                                                  tag |-> old_head[t].tag + 1]]
          /\ pc' = [pc EXCEPT ![t] = "pop_cas"]
  /\ UNCHANGED <<arenaVars, sizeVars, threadVars, old_head, new_node, held, bal>>

\* pop that returns the chunk it saw at the head even when its
\* compare-and-swap fails
PopCas_ReturnOnFail(t) ==
  /\ pc[t] = "pop_cas"
  /\ \E spurious \in BOOLEAN :
       LET r == compare_exchange_weak(head, old_head[t], new_head[t], spurious)
       IN /\ head' = r.head
          /\ old_head' = [old_head EXCEPT ![t] = r.expected]
          /\ pc' = [pc EXCEPT ![t] = "idle"]
          /\ held' = [held EXCEPT ![t] = @ \cup {old_head[t].ptr}]
          /\ bal' = [c \in Chunks |->
                       IF c = old_head[t].ptr THEN bal[c] - 1 ELSE bal[c]]
  /\ UNCHANGED <<bins, mem, mapped, live, sizeVars, threadVars, new_head, new_node>>

\* pop: the compare-and-swap; on success the thread owns old_head.ptr
PopCas(t) ==
  /\ pc[t] = "pop_cas"
  /\ \E spurious \in BOOLEAN :
       LET r == compare_exchange_weak(head, old_head[t], new_head[t], spurious)
       IN /\ head' = r.head
          /\ old_head' = [old_head EXCEPT ![t] = r.expected]
          /\ IF r.ok
             THEN /\ pc' = [pc EXCEPT ![t] = "idle"]
                  /\ held' = [held EXCEPT ![t] = @ \cup {old_head[t].ptr}]
                  /\ bal' = [c \in Chunks |->
                               IF c = old_head[t].ptr THEN bal[c] - 1 ELSE bal[c]]
             ELSE /\ pc' = [pc EXCEPT ![t] = "pop_body"]
                  /\ UNCHANGED <<held, bal>>
  /\ UNCHANGED <<bins, mem, mapped, live, sizeVars, threadVars, new_head, new_node>>

\* the owner of a chunk builds a slab on it: the first word becomes the
\* free-list link of the first block
UseChunk(t, chunk) ==
  /\ chunk \in held[t]
  /\ chunk # new_node[t] \/ pc[t] = "idle"
  /\ chunk \in DOMAIN mem => mem[chunk] # chunk + kMinBlockSize
  /\ mem' = Store(mem, [a \in {chunk} |-> chunk + kMinBlockSize])
  /\ UNCHANGED <<bins, head, mapped, live, sizeVars, threadVars, stackVars>>

StackNext ==
  \E t \in Threads :
    \/ \E chunk \in Chunks \cup {NULL} : PushStart(t, chunk)
    \/ PushBody(t)
    \/ PushCas(t)
    \/ PopStart(t)
    \/ PopBody(t)
    \/ PopCas(t)
    \/ \E chunk \in Chunks : UseChunk(t, chunk)

StackSpec == StackInit /\ [][StackNext]_vars

\* the chunks on the stack with head h in memory m, top first: the walk of
\* approximate_size, which stops at nullptr or after `limit` nodes
RECURSIVE Walk(_, _, _)
Walk(p, m, limit) ==
  IF p = NULL \/ limit = 0 THEN <<>>
  ELSE IF p \notin DOMAIN m THEN <<p>>
       ELSE <<p>> \o Walk(m[p], m, limit - 1)

Contents(h, m) == Walk(h.ptr, m, NumChunks + MaxPushes + 2)

\* push(cs[1]), ..., push(cs[n]) with no other operation in between
RECURSIVE PushAll(_, _, _)
PushAll(h, m, cs) ==
  IF cs = <<>> THEN [head |-> h, mem |-> m]
  ELSE LET r == push(h, m, Head(cs))
       IN PushAll(r.head, r.mem, Tail(cs))

\* k times pop() with no other operation in between: what they return
RECURSIVE PopN(_, _, _)
PopN(h, m, k) ==
  IF k = 0 THEN [head |-> h, rets |-> <<>>]
  ELSE LET r == pop(h, m)
           rest == PopN(r.head, m, k - 1)
       IN [head |-> rest.head, rets |-> <<r.ret>> \o rest.rets]

Reverse(s) == [i \in 1..Len(s) |-> s[Len(s) + 1 - i]]

\* the sequences of 1..MaxPushes distinct chunks that are not on the stack
PushSequences ==
  LET free == {k * kChunkSize : k \in 1..(MaxPushes + 2)}
                \ Range(Contents(head, mem))
  IN {cs \in UNION {[1..k -> free] : k \in 1..MaxPushes} :
        \A i, j \in DOMAIN cs : i # j => cs[i] # cs[j]}

(***************************************************************************)
(* C15.  With no concurrent operation the global stack is LIFO: after      *)
(* pushing distinct chunks c1..ck in order onto a stack holding S, k pops  *)
(* return ck..c1 in that order and leave the stack holding S again.        *)
(***************************************************************************)
C15_Lifo ==
  \A cs \in PushSequences :
    LET a == PushAll(head, mem, cs)
        b == PopN(a.head, a.mem, Len(cs))
    IN /\ b.rets = Reverse(cs)
       /\ Contents(b.head, a.mem) = Contents(head, mem)
       /\ Contents(a.head, a.mem) = Reverse(cs) \o Contents(head, mem)

\* the stack holds two chunks that a thread's exit has returned
C15_Witness == Len(Contents(head, mem)) = 2

\* the threads that own chunk c
Holders(c) == {t \in Threads : c \in held[t]}

\* every chunk is in exactly one place: owned by one thread or once on the
\* stack; the stack holds chunks only
Conserved ==
  LET on == Contents(head, mem)
  IN /\ Range(on) \subseteq Chunks
     /\ \A i, j \in DOMAIN on : i # j => on[i] # on[j]
     /\ \A c \in Chunks :
          Cardinality(Holders(c)) + (IF c \in Range(on) THEN 1 ELSE 0) = 1

(***************************************************************************)
(* C16.  For threads that push and pop distinct chunks concurrently, in    *)
(* every interleaving: nothing is lost, duplicated or invented, and once   *)
(* all threads have finished and the stack has been drained, every chunk   *)
(* has been popped as often as it was pushed and the stack is empty.       *)
(***************************************************************************)
C16_PushedEqualsPopped ==
  /\ Conserved
  /\ (InFlight = {} /\ head.ptr = NULL) =>
       /\ \A c \in Chunks : bal[c] = 0
       /\ Contents(head, mem) = <<>>
       /\ \A c \in Chunks : Cardinality(Holders(c)) = 1

\* the threads have finished MaxStackOps pushes and pops between them, the
\* stack is drained and a chunk has changed hands
C16_Witness ==
  /\ InFlight = {}
  /\ head.ptr = NULL
  /\ head.tag = MaxStackOps
  /\ \E t \in Threads : held[t] = Chunks

\* a step in which a pop of thread t succeeds
PopSucceeds(t) == pc[t] = "pop_cas" /\ pc'[t] = "idle"

(***************************************************************************)
(* C17.  At every point of every interleaving the successful pops of a     *)
(* chunk never exceed its pushes (so the pops never exceed the pushes), a  *)
(* chunk pushed once is returned by at most one pop until it is pushed     *)
(* again, and a pop returns only the chunk that is on top of the stack at  *)
(* that moment, leaving the rest of the stack in place.                    *)
(***************************************************************************)
C17_PopOnlyWhatIsOnStack ==
  /\ [](\A c \in Chunks :
          /\ bal[c] \in {0, 1}
          /\ bal[c] = 1 <=> c \in Range(Contents(head, mem))
          /\ Cardinality(Holders(c)) <= 1)
  /\ [][\A t \in Threads :
          PopSucceeds(t) =>
            /\ Contents(head, mem) # <<>>
            /\ held'[t] = held[t] \cup {Head(Contents(head, mem))}
            /\ Head(Contents(head, mem)) \notin held[t]
            /\ Contents(head', mem') = Tail(Contents(head, mem))]_vars

\* two pops are racing for a stack that holds one chunk: both have read the
\* same head and stand before their compare-and-swap
C17_Witness ==
  /\ Len(Contents(head, mem)) = 1
  /\ \A t \in Threads : pc[t] = "pop_cas" /\ old_head[t] = head

(***************************************************************************)
(* C18.  ABA freedom: the head tag grows by exactly one on every           *)
(* successful compare-and-swap of push or pop, a compare-and-swap succeeds *)
(* only if no push or pop succeeded since the thread read old_head, and    *)
(* the next pointer a successful pop installs as head is the current link  *)
(* of the chunk it removes, also when that chunk was meanwhile popped,     *)
(* used by a slab and pushed back.                                         *)
(***************************************************************************)
C18_NoABA ==
  /\ [](\A t \in Threads :
          /\ old_head[t].tag <= head.tag
          /\ (pc[t] = "pop_cas" /\ old_head[t] = head) =>
               new_head[t].ptr = mem[head.ptr]
          /\ (pc[t] \in {"pop_cas", "push_cas"} /\ old_head[t].tag = head.tag) =>
               old_head[t] = head)
  /\ [][/\ head' # head => head'.tag = head.tag + 1
        /\ \A t \in Threads :
             (pc[t] \in {"pop_cas", "push_cas"} /\ pc'[t] = "idle") =>
               /\ old_head[t] = head
               /\ head' = new_head[t]
        /\ \A t \in Threads :
             PopSucceeds(t) => head'.ptr = mem[head.ptr]]_vars

\* the ABA situation: a thread stands before the compare-and-swap of its pop
\* with the chunk it saw at the head back at the head, after others popped
\* it, a slab used it and it was pushed again; the link the thread read is
\* no longer the chunk's link
C18_Witness ==
  \E t \in Threads :
    /\ pc[t] = "pop_cas"
    /\ old_head[t].ptr = head.ptr
    /\ old_head[t].tag + 3 <= head.tag
    /\ new_head[t].ptr # mem[head.ptr]
    /\ new_head[t].ptr # NULL

(***************************************************************************)
(* The stack under fair scheduling.  The threads in Scheduled keep being   *)
(* scheduled: each takes its next step, and a compare-and-swap that could  *)
(* succeed again and again does not fail spuriously forever.  The other    *)
(* threads may stall at any point, for good.                               *)
(***************************************************************************)
Scheduled == {1}

\* a step in which the compare-and-swap of thread t succeeds
CasSucceeds(t) ==
  /\ PushCas(t) \/ PopCas(t)
  /\ pc'[t] = "idle"

\* a step in which the compare-and-swap of thread t fails
CasFails(t) ==
  /\ pc[t] \in {"push_cas", "pop_cas"}
  /\ pc'[t] \in {"push_body", "pop_body"}

FairStackSpec ==
  /\ StackSpec
  /\ \A t \in Scheduled :
       /\ WF_vars(PushBody(t) \/ PopBody(t) \/ PushCas(t) \/ PopCas(t))
       /\ SF_vars(CasSucceeds(t))

(***************************************************************************)
(* C19 as stated.  The stack is lock-free: whenever a thread's             *)
(* compare-and-swap in push or pop fails, some other thread's push or pop  *)
(* has succeeded since that thread last read the head; and when finitely   *)
(* many operations are issued every one of them eventually returns under   *)
(* fair scheduling, even if other threads stall at arbitrary points.       *)
(***************************************************************************)
C19_FailureMeansProgress ==
  /\ [][\A t \in Threads : CasFails(t) => head.tag > old_head[t].tag]_vars
  /\ \A t \in Scheduled : (pc[t] # "idle") ~> (pc[t] = "idle")

(***************************************************************************)
(* C19, amended.  A compare-and-swap in push or pop fails either           *)
(* spuriously, with the head unchanged (it is compare_exchange_weak), or   *)
(* because some other thread's push or pop has succeeded since the thread  *)
(* last read the head; and when finitely many operations are issued, every *)
(* operation of a thread that keeps being scheduled, and whose             *)
(* compare-and-swap does not fail spuriously forever, eventually returns,  *)
(* even if other threads stall at arbitrary points.                        *)
(***************************************************************************)
C19_LockFree ==
  /\ [][\A t \in Threads :
          CasFails(t) => (head = old_head[t] \/ head.tag > old_head[t].tag)]_vars
  /\ \A t \in Scheduled : (pc[t] # "idle") ~> (pc[t] = "idle")

\* a scheduled thread is repeating the loop of its push because another
\* thread's operation succeeded in between, while another thread is in the
\* middle of an operation
C19_Witness ==
  \E t \in Scheduled :
    /\ pc[t] = "push_body"
    /\ old_head[t] = head
    /\ new_head[t].ptr = new_node[t]
    /\ new_head[t].tag = head.tag
    /\ new_head[t] # head
    /\ \E u \in Threads \ {t} : pc[u] \in {"push_cas", "pop_cas"}

(***************************************************************************)
(* Several threads on the process-wide API.  allocate(size) and            *)
(* deallocate(ptr, size) go to the calling thread's thread_local arena;    *)
(* the arenas share the global stack, the chunk memory and the process's   *)
(* mappings.  A thread's arena is destroyed when the thread exits, one     *)
(* return_chunk at a time, and a thread started later begins with an empty *)
(* arena.  A block belongs to the thread that allocated it and only that   *)
(* thread frees it; the blocks a thread has not freed when it ends stay    *)
(* outstanding.  Each push and pop of the global stack is taken as one     *)
(* step, at its successful compare-and-swap.                               *)
(***************************************************************************)
\* an arena that is one static object of the process instead of thread_local
WorldOf_Static(t) ==
  [bins |-> arenas[1], mem |-> mem, head |-> head, mapped |-> mapped]

\* what thread t sees: its own bins and the shared state
WorldOf(t) ==
  [bins |-> arenas[t], mem |-> mem, head |-> head, mapped |-> mapped]

\* a thread starts; ThreadArena::get() will construct its arena
ThreadStarts(t) ==
  /\ phase[t] = "none"
  /\ phase' = [phase EXCEPT ![t] = "running"]
  /\ arenas' = [arenas EXCEPT ![t] = [c \in 0..(kNumClasses - 1) |-> EmptyBin]]
  /\ UNCHANGED <<arenaVars, sizeVars, stackVars, leaving, outstanding>>

\* p = nexusalloc::allocate(size) on thread t; the thread keeps a non-null p
ThreadAllocates(t, size) ==
  /\ phase[t] = "running"
  /\ Cardinality(outstanding) < MaxOutstanding
  /\ \E os \in OsAnswers(WorldOf(t), size) :
       LET r == allocate(WorldOf(t), size, os)
       IN /\ r.W.head.tag <= MaxTag
          /\ arenas' = [arenas EXCEPT ![t] = r.W.bins]
          /\ mem' = r.W.mem
          /\ head' = r.W.head
          /\ mapped' = r.W.mapped
          /\ outstanding' =
               IF r.ret = NULL THEN outstanding
               ELSE outstanding \cup {[ptr |-> r.ret, size |-> size, owner |-> t]}
  /\ UNCHANGED <<bins, live, sizeVars, stackVars, phase, leaving>>

\* nexusalloc::deallocate(a.ptr, a.size) on the thread that allocated a
ThreadFrees(t, a) ==
  /\ phase[t] = "running"
  /\ a \in outstanding
  /\ a.owner = t
  /\ LET r == deallocate(WorldOf(t), a.ptr, a.size)
     IN /\ arenas' = [arenas EXCEPT ![t] = r.W.bins]
        /\ mem' = r.W.mem
        /\ head' = r.W.head
        /\ mapped' = r.W.mapped
  /\ outstanding' = outstanding \ {a}
  /\ UNCHANGED <<bins, live, sizeVars, stackVars, phase, leaving>>

\* thread t exits: ~ThreadArena() begins
ThreadExits(t) ==
  /\ phase[t] = "running"
  /\ phase' = [phase EXCEPT ![t] = "exiting"]
  /\ leaving' = [leaving EXCEPT ![t] = BinChunks(arenas[t], 0)]
  /\ UNCHANGED <<arenaVars, sizeVars, stackVars, arenas, outstanding>>

\* ~ThreadArena(): the next return_chunk(slab.base())
ReturnsChunk(t) ==
  /\ phase[t] = "exiting"
  /\ leaving[t] # <<>>
  /\ LET W == return_chunk(WorldOf(t), Head(leaving[t]))
     IN /\ W.head.tag <= MaxTag
        /\ mem' = W.mem
        /\ head' = W.head
  /\ leaving' = [leaving EXCEPT ![t] = Tail(@)]
  /\ UNCHANGED <<bins, mapped, live, sizeVars, stackVars, arenas, phase,
                 outstanding>>

\* ~ThreadArena() is over and the thread is gone; what it did not free
\* stays allocated, with no thread left to free it
ThreadEnds(t) ==
  /\ phase[t] = "exiting"
  /\ leaving[t] = <<>>
  /\ phase' = [phase EXCEPT ![t] = "none"]
  /\ arenas' = [arenas EXCEPT ![t] = [c \in 0..(kNumClasses - 1) |-> EmptyBin]]
  /\ outstanding' = {IF a.owner = t THEN [a EXCEPT !.owner = 0] ELSE a :
                       a \in outstanding}
  /\ UNCHANGED <<arenaVars, sizeVars, stackVars, leaving>>

ThreadsNext ==
  \/ \E t \in Threads : ThreadStarts(t)
  \/ \E t \in Threads : \E size \in SmallSizes : ThreadAllocates(t, size)
  \/ \E t \in Threads : \E a \in outstanding : ThreadFrees(t, a)
  \/ \E t \in Threads : ThreadExits(t)
  \/ \E t \in Threads : ReturnsChunk(t)
  \/ \E t \in Threads : ThreadEnds(t)

ThreadsSpec == Init /\ [][ThreadsNext]_vars

(***************************************************************************)
(* C20.  With several threads each allocating through the process-wide     *)
(* API and freeing only its own blocks on the same thread, in every        *)
(* interleaving, threads that exit and new threads that reuse the chunks   *)
(* returned to the global stack included, no two blocks outstanding at the *)
(* same time, of the same or of different threads, overlap.                *)
(***************************************************************************)
C20_NoAliasAcrossThreads ==
  \A a, b \in outstanding :
    a # b => ~Overlaps(a.ptr, IF is_large(a.size) THEN a.size ELSE BlockBytes(a.size),
                       b.ptr, IF is_large(b.size) THEN b.size ELSE BlockBytes(b.size))

\* the extent of outstanding block a
Extent(a) == IF is_large(a.size) THEN a.size ELSE BlockBytes(a.size)

\* the sizes of the slab path a caller may pass to deallocate
SmallFreeSizes == {size \in FreeSizes : ~is_large(size)}

(***************************************************************************)
(* C21.  A cross-thread deallocation is discarded without corruption: when *)
(* thread B calls deallocate(p, size) for a block p that is outstanding in *)
(* the arena of a live thread A, neither arena changes (nor the chunk      *)
(* memory that holds the free lists, nor the global stack), p stays        *)
(* allocated in A's slab, and B's next allocate does not hand out p.       *)
(***************************************************************************)
C21_CrossThreadFreeDiscarded ==
  \A A, B \in Threads : \A a \in outstanding :
    (A # B /\ phase[A] = "running" /\ phase[B] = "running" /\ a.owner = A) =>
      \A size \in SmallFreeSizes :
        LET r == deallocate(WorldOf(B), a.ptr, size)
        IN /\ r.W = WorldOf(B)
           /\ r.sys = "none"
           /\ StillHeld(WorldOf(A), a)
           /\ \A sz \in SmallSizes : \A os \in OsAnswers(r.W, sz) :
                LET q == allocate(r.W, sz, os)
                IN q.ret # NULL =>
                     ~Overlaps(q.ret, BlockBytes(sz), a.ptr, Extent(a))

\* thread 1 holds a block of a class of which thread 2 has slabs of its own,
\* one of them in its lists
C21_Witness ==
  \E a \in outstanding :
    /\ a.owner = 1
    /\ phase[1] = "running"
    /\ phase[2] = "running"
    /\ valid(arenas[2][index(a.size)].current_slab)
    /\ \E b \in outstanding : b.owner = 2 /\ index(b.size) = index(a.size)

\* the chunks that back the slabs of the bins bs
HeldChunks(bs) == UNION {{base(s) : s \in SlabsOf(bs[c])} : c \in DOMAIN bs}

(***************************************************************************)
(* C22.  When an arena is destroyed at thread exit, the backing chunk of   *)
(* every slab it holds (active, partial and full, of all 24 bins, empty or *)
(* not) is pushed onto the global stack exactly once and none is unmapped: *)
(* afterwards the stack holds those chunks, each once, on top of what it   *)
(* held before, the mappings are as they were, and as many pops as there   *)
(* were slabs return exactly those chunks.                                 *)
(***************************************************************************)
C22_ExitReturnsEveryChunk ==
  LET W2 == destroy_arena(World)
      before == Contents(head, mem)
      after == Contents(W2.head, W2.mem)
      n == Cardinality(HeldChunks(bins))
      popped == PopN(W2.head, W2.mem, n)
  IN /\ Len(after) = n + Len(before)
     /\ SubSeq(after, n + 1, Len(after)) = before
     /\ Range(SubSeq(after, 1, n)) = HeldChunks(bins)
     /\ \A i, j \in DOMAIN after : i # j => after[i] # after[j]
     /\ W2.mapped = mapped
     /\ popped.rets = SubSeq(after, 1, n)
     /\ Contents(popped.head, W2.mem) = before

\* the arena holds a full slab and an active slab with a block allocated,
\* and the caller still holds blocks of both
C22_Witness ==
  \E c \in DOMAIN bins :
    /\ bins[c].full_slabs # <<>>
    /\ valid(bins[c].current_slab)
    /\ ~empty(bins[c].current_slab)
    /\ Cardinality(SmallLive) >= 2

\* the chunks obtained from the chunk provider and not unmapped
OsChunks == {mp.base : mp \in {x \in mapped : x.len = kChunkSize}}

\* the chunks thread t holds, one entry per slab: those of its bins while it
\* runs, those its destructor has still to return while it exits
ChunksOf(t) ==
  IF phase[t] = "running" THEN BinChunks(arenas[t], 0)
  ELSE IF phase[t] = "exiting" THEN leaving[t]
  ELSE <<>>

\* the chunks held by threads 1..t, one entry per slab
RECURSIVE ArenaChunks(_)
ArenaChunks(t) == IF t = 0 THEN <<>> ELSE ArenaChunks(t - 1) \o ChunksOf(t)

\* how many times c occurs in sequence s
Count(s, c) == Cardinality({i \in DOMAIN s : s[i] = c})

(***************************************************************************)
(* C23.  Chunk ownership is exclusive and chunks are conserved: in every   *)
(* reachable state of all arenas and the global stack, each chunk obtained *)
(* from the provider is in exactly one place, backing exactly one slab of  *)
(* one bin of one arena or once on the global stack, nothing else is in    *)
(* either place, and the number of chunks obtained from the OS equals the  *)
(* number on the stack plus the number backing slabs.                      *)
(***************************************************************************)
C23_ChunksConserved ==
  LET on == Contents(head, mem)
      inArenas == ArenaChunks(NumThreads)
  IN /\ Range(on) \cup Range(inArenas) \subseteq OsChunks
     /\ \A c \in OsChunks : Count(on, c) + Count(inArenas, c) = 1
     /\ Cardinality(OsChunks) = Len(on) + Len(inArenas)

\* two chunks have been obtained; one is on the stack after a thread's exit
\* returned it and the other backs a slab of a running thread
C23_Witness ==
  /\ Cardinality(OsChunks) = 2
  /\ Len(Contents(head, mem)) = 1
  /\ head.tag >= 3
  /\ \E t \in Threads : phase[t] = "running" /\ Len(ChunksOf(t)) = 1

(***************************************************************************)
(* C24.  The bin list invariants hold after every allocate and deallocate  *)
(* of valid inputs: every slab in a bin's partial list has at least one    *)
(* free block, every slab in its full list has none, and no chunk base     *)
(* appears in more than one of active, partial and full, nor twice in one  *)
(* list.                                                                   *)
(***************************************************************************)
C24_BinListInvariants ==
  /\ BinInvariants(World)
  /\ \A size \in SmallSizes : \A os \in OsAnswers(World, size) :
       BinInvariants(allocate(World, size, os).W)
  /\ \A a \in SmallLive : \A size \in SmallFreeSizes :
       index(size) = index(a.size) =>
         BinInvariants(deallocate(World, a.ptr, size).W)

\* a bin holds a slab in its partial list, moved there from the full list by
\* a deallocate, next to an active slab with a block allocated
C24_Witness ==
  \E c \in DOMAIN bins :
    /\ bins[c].partial_slabs # <<>>
    /\ valid(bins[c].current_slab)
    /\ ~empty(bins[c].current_slab)

\* allocate(size) in world W is satisfied by the active slab
FastPath(W, size) ==
  LET cur == W.bins[index(size)].current_slab
  IN ~is_large(size) /\ valid(cur) /\ ~full(cur)

FreeList(s, m) ==
  Walk(s.free_head_, m, kBlocksPerSlab(kBlockSizeForClass(s.class_idx_)) + 1)

\* the invariants of slab s with chunk memory m
SlabInvariants(s, m) ==
  LET BlockSize == kBlockSizeForClass(s.class_idx_)
      n == kBlocksPerSlab(BlockSize)
      fl == FreeList(s, m)
  IN /\ Cardinality(s.occupancy_) = s.allocated_count_
     /\ s.occupancy_ \subseteq 0..(n - 1)
     /\ 0 <= s.allocated_count_ /\ s.allocated_count_ <= n
     /\ \A i \in DOMAIN fl :
          /\ contains(s, fl[i])
          /\ (fl[i] - s.base_) % BlockSize = 0
          /\ block_index(s, fl[i]) \notin s.occupancy_
     /\ Len(fl) = n - s.allocated_count_
     /\ Range(fl) = FreeBlocks(s)

(***************************************************************************)
(* C26.  The slab invariants hold after every sequence of valid allocate   *)
(* and deallocate on a slab: the number of set occupancy bits equals       *)
(* allocated_count, every block reachable from free_head has its occupancy *)
(* bit clear (and the free list is exactly the blocks whose bit is clear), *)
(* and 0 <= allocated_count <= blocks_per_slab.                            *)
(***************************************************************************)
C26_SlabInvariants ==
  \A c \in DOMAIN bins : \A s \in SlabsOf(bins[c]) : SlabInvariants(s, mem)

\* a slab with a block allocated whose free list starts at a block freed
\* earlier, below the allocated one
C26_Witness ==
  \E c \in DOMAIN bins : \E s \in SlabsOf(bins[c]) :
    /\ s.free_head_ # NULL
    /\ \E i \in s.occupancy_ : block_index(s, s.free_head_) < i
    /\ Len(FreeList(s, mem)) >= 2

\* bin c has had its first slab filled to capacity and one more block
\* allocated, which created a second slab: the first is in the full list, the
\* second is active with that one block
SecondSlabCreated(W, c) ==
  LET bin == W.bins[c]
  IN /\ Len(bin.full_slabs) = 1
     /\ full(bin.full_slabs[1])
     /\ bin.partial_slabs = <<>>
     /\ valid(bin.current_slab)
     /\ bin.current_slab.allocated_count_ = 1

(***************************************************************************)
(* C27.  After a bin's first slab has been filled to capacity and one more *)
(* block has been allocated (creating a second slab), freeing one block of *)
(* the first slab moves the first slab to the partial list, and the next   *)
(* allocation of that class is served from the partial list, that is from  *)
(* the original first slab, before any new chunk is provisioned.           *)
(***************************************************************************)
C27_PartialBeforeNewChunk ==
  \A a \in SmallLive :
    LET c == index(a.size)
        first == bins[c].full_slabs[1]
        W2 == deallocate(World, a.ptr, a.size).W
    IN (SecondSlabCreated(World, c) /\ contains(first, a.ptr)) =>
         /\ \E s \in Range(W2.bins[c].partial_slabs) : base(s) = base(first)
         /\ W2.bins[c].full_slabs = <<>>
         /\ \A os \in OsAnswers(W2, a.size) :
              LET r == allocate(W2, a.size, os)
              IN /\ r.ret # NULL
                 /\ contains(first, r.ret)
                 /\ r.sys = "none"
                 /\ r.W.head = W2.head
                 /\ r.W.mapped = W2.mapped

(***************************************************************************)
(* C28.  NexusAllocator<T>::allocate(n): for n = 0 it returns null without *)
(* touching the arena; for n > 0 it returns the non-null pointer the       *)
(* calling thread's arena gave for n * sizeof(T) bytes or, when the arena  *)
(* returned null, throws std::bad_alloc, and it never returns null; all    *)
(* NexusAllocator instances compare equal regardless of T.                 *)
(***************************************************************************)
C28_ContainerAllocate ==
  /\ \A call \in ContainerCalls :
       LET n == call[1]
           bytes == ByteCount(n, call[2])
       IN \A os \in OsAnswers(World, bytes) :
            LET r == NexusAllocator_allocate(World, n, call[2], os)
                a == allocate(World, bytes, os)
            IN /\ n = 0 => /\ r.ret = NULL /\ ~r.throws
                           /\ r.W = World /\ r.sys = "none"
               /\ n > 0 => /\ ~r.throws <=> a.ret # NULL
                           /\ ~r.throws => r.ret # NULL /\ r.ret = a.ret
                           /\ r.W = a.W
                           /\ (~r.throws /\ ~is_large(bytes)) =>
                                \E s \in SlabsOf(r.W.bins[index(bytes)]) :
                                  IsBlockOf(s, r.ret, bytes)
                           /\ (~r.throws /\ is_large(bytes)) =>
                                \E mp \in r.W.mapped : mp.base = r.ret
  /\ \A call1, call2 \in ContainerCalls : NexusAllocator_eq(call1[2], call2[2])

\* the container holds a block while the arena can serve nothing more of its
\* class: the active slab is full, no partial slab, the stack is empty, so
\* that allocate(n) throws when the kernel refuses a mapping
C28_Witness ==
  \E a \in SmallLive :
    /\ Exhausted(World, a.size, MAP_FAILED)
    /\ NexusAllocator_allocate(World, 1, 40, MAP_FAILED).throws
    /\ a.size = 40

\* the pointers a caller may pass: every address of the pages mmap hands out
\* and of the page below and the pages above them
Pointers == 1..((NumPages + 3) * kRegularPageSize)

\* the masked base of ptr is the base of no slab of bin[index(size)] of W
MatchesNoSlab(W, ptr, size) ==
  \A s \in SlabsOf(W.bins[index(size)]) : base(s) # slab_base_from_ptr(ptr)

(***************************************************************************)
(* C29.  deallocate(ptr, size) with size <= 65536 and a non-null ptr whose *)
(* masked slab base matches no slab (active, partial or full) of           *)
(* bin[index(size)] of the calling arena, such as a pointer the allocator  *)
(* does not own or a block of another size class, is silently ignored: the *)
(* whole arena state and the global stack are unchanged.                   *)
(***************************************************************************)
C29_UnmatchedFreeIgnored ==
  \A ptr \in Pointers : \A size \in SmallFreeSizes :
    MatchesNoSlab(World, ptr, size) =>
      LET r == deallocate(World, ptr, size)
      IN r.W = World /\ r.sys = "none"

\* the caller holds blocks of two size classes, so that one of them passed
\* with the size of the other matches no slab of a bin that has slabs, and
\* some pointer lies in no slab of the arena
C29_Witness ==
  /\ \E a, b \in SmallLive :
       /\ index(a.size) # index(b.size)
       /\ MatchesNoSlab(World, a.ptr, b.size)
       /\ SlabsOf(bins[index(b.size)]) # {}
  /\ \E ptr \in Pointers : \A c \in DOMAIN bins : \A s \in SlabsOf(bins[c]) :
       ~contains(s, ptr)

\* the active slab of bin is absent or has no free block
ActiveSpent(bin) == ~valid(bin.current_slab) \/ full(bin.current_slab)

(***************************************************************************)
(* C30.  Replenishment order of a bin: an allocation is served from the    *)
(* active slab whenever it has a free block; a slab is taken from the      *)
(* partial list only when the active slab is absent or full; the global    *)
(* stack is popped only when in addition the partial list is empty; and    *)
(* the chunk provider is called only after that pop returned null.  Hence  *)
(* no new chunk is acquired while the bin still holds a free block in its  *)
(* active or partial slabs.                                                *)
(***************************************************************************)
C30_ReplenishmentOrder ==
  \A size \in SmallSizes : \A os \in OsAnswers(World, size) :
    LET c == index(size)
        old == bins[c]
        r == allocate(World, size, os)
        new == r.W.bins[c]
        acquired == r.W.head # head \/ r.W.mapped # mapped \/ r.sys # "none"
    IN /\ ~ActiveSpent(old) =>
            /\ r.ret \in FreeBlocks(old.current_slab)
            /\ new.partial_slabs = old.partial_slabs
            /\ ~acquired
       /\ new.partial_slabs # old.partial_slabs =>
            /\ ActiveSpent(old)
            /\ new.partial_slabs = Front(old.partial_slabs)
            /\ r.ret \in FreeBlocks(Last(old.partial_slabs))
            /\ base(new.current_slab) = base(Last(old.partial_slabs))
            /\ ~acquired
       /\ r.W.head # head =>
            /\ ActiveSpent(old) /\ old.partial_slabs = <<>>
            /\ base(new.current_slab) = head.ptr
            /\ r.W.mapped = mapped /\ r.sys = "none"
       /\ (r.sys = "mmap" \/ r.W.mapped # mapped) =>
            /\ ActiveSpent(old) /\ old.partial_slabs = <<>>
            /\ head.ptr = NULL /\ r.W.head = head
       /\ (~ActiveSpent(old) \/ old.partial_slabs # <<>>) => ~acquired

\* a bin whose active slab is full, with a block of it held, while its
\* partial list holds a slab
C30_Witness ==
  \E c \in DOMAIN bins :
    /\ valid(bins[c].current_slab)
    /\ full(bins[c].current_slab)
    /\ bins[c].partial_slabs # <<>>
    /\ \E a \in SmallLive : contains(bins[c].current_slab, a.ptr)

\* the chunk bases of the slabs of list s, in order
Bases(s) == [i \in DOMAIN s |-> base(s[i])]

\* the places of list s whose slab contains ptr
PlacesOf(s, ptr) == {i \in DOMAIN s : contains(s[i], ptr)}

(***************************************************************************)
(* C31.  Deallocating a block of a slab that is in the full list moves     *)
(* that slab to the back of the partial list and removes it from the full  *)
(* list, leaving the relative order of the other full slabs and of all     *)
(* other partial slabs unchanged; deallocating a block of a slab in the    *)
(* partial list or of the active slab moves no slab.                       *)
(***************************************************************************)
C31_FullToPartialOnFree ==
  \A a \in SmallLive : \A size \in SmallFreeSizes :
    index(size) = index(a.size) =>
      LET c == index(a.size)
          old == bins[c]
          new == deallocate(World, a.ptr, size).W.bins[c]
      IN /\ \A j \in PlacesOf(old.full_slabs, a.ptr) :
              /\ Bases(new.full_slabs) = Bases(Erase(old.full_slabs, j))
              /\ Bases(new.partial_slabs)
                   = Append(Bases(old.partial_slabs), base(old.full_slabs[j]))
              /\ base(new.current_slab) = base(old.current_slab)
         /\ (PlacesOf(old.partial_slabs, a.ptr) # {}
               \/ contains(old.current_slab, a.ptr)) =>
              /\ Bases(new.full_slabs) = Bases(old.full_slabs)
              /\ Bases(new.partial_slabs) = Bases(old.partial_slabs)
              /\ base(new.current_slab) = base(old.current_slab)

(***************************************************************************)
(* One bin with room for several slabs.  The caller allocates and frees    *)
(* blocks of one class, 48-byte blocks of which a chunk holds one, so that *)
(* three chunks give the bin an active slab and two more in its lists.     *)
(***************************************************************************)
BinSizes == {40}

\* the kernel's possible answers to the mmap of a chunk
BinOsAnswers(W) ==
  {MAP_FAILED} \cup
  {b \in {k * kRegularPageSize : k \in 1..BinPages} :
     \A mp \in W.mapped : ~Overlaps(b, kChunkSize, mp.base, mp.len)}

\* p = allocate(size); the caller keeps a non-null p
BinAllocate(size) ==
  /\ Cardinality(live) < BinLive
  /\ \E os \in BinOsAnswers(World) :
       LET r == allocate(World, size, os)
       IN /\ bins' = r.W.bins
          /\ mem' = r.W.mem
          /\ head' = r.W.head
          /\ mapped' = r.W.mapped
          /\ live' = IF r.ret = NULL THEN live
                     ELSE live \cup {[ptr |-> r.ret, size |-> size]}
  /\ UNCHANGED outsideArena

BinNext ==
  \/ \E size \in BinSizes : BinAllocate(size)
  \/ \E a \in live : Deallocate(a, a.size)

BinSpec == Init /\ [][BinNext]_vars

(***************************************************************************)
(* C32.  The partial list is used as a LIFO: slabs enter it at the back    *)
(* and leave it from the back only, and when the active slab is exhausted  *)
(* and the partial list is non-empty, the slab that most recently entered  *)
(* the partial list becomes the new active slab, the exhausted slab is     *)
(* appended to the full list, and the allocation served from the new       *)
(* active slab cannot fail.                                                *)
(***************************************************************************)
C32_PartialListLifo ==
  /\ [](\A size \in BinSizes : \A os \in BinOsAnswers(World) :
          LET c == index(size)
              old == bins[c]
              r == allocate(World, size, os)
              new == r.W.bins[c]
          IN (valid(old.current_slab) /\ full(old.current_slab)
                /\ old.partial_slabs # <<>>) =>
               /\ base(new.current_slab) = base(Last(old.partial_slabs))
               /\ new.partial_slabs = Front(old.partial_slabs)
               /\ new.full_slabs = Append(old.full_slabs, old.current_slab)
               /\ r.ret # NULL
               /\ r.ret \in FreeBlocks(Last(old.partial_slabs))
               /\ r.sys = "none" /\ r.W.head = head /\ r.W.mapped = mapped)
  /\ [][\A c \in DOMAIN bins :
          \/ Bases(bins'[c].partial_slabs) = Bases(bins[c].partial_slabs)
          \/ Front(Bases(bins'[c].partial_slabs)) = Bases(bins[c].partial_slabs)
               /\ bins'[c].partial_slabs # <<>>
          \/ Bases(bins'[c].partial_slabs) = Front(Bases(bins[c].partial_slabs))
               /\ bins[c].partial_slabs # <<>>]_vars

\* the active slab is exhausted and two slabs wait in the partial list
C32_Witness ==
  \E c \in DOMAIN bins :
    /\ valid(bins[c].current_slab)
    /\ full(bins[c].current_slab)
    /\ Len(bins[c].partial_slabs) >= 2

\* the size classes whose block fits the chunk
SlabClasses ==
  {c \in 0..(kNumClasses - 1) : kBlocksPerSlab(kBlockSizeForClass(c)) >= 1}

\* the chunks a new slab may be built on: what the stack would pop and what
\* the kernel may map
FreshChunks ==
  ({head.ptr} \cup OsAnswers(World, kMinBlockSize)) \ {NULL, MAP_FAILED}

\* k times allocate() on slab s with no deallocate in between: the blocks
\* returned, in order
RECURSIVE AllocateRun(_, _, _)
AllocateRun(s, m, k) ==
  IF k = 0 THEN <<>>
  ELSE LET a == Slab_allocate(s, m)
       IN <<a.ret>> \o AllocateRun(a.slab, m, k - 1)

(***************************************************************************)
(* C33.  A freshly constructed slab over chunk base b with block size s    *)
(* has all floor(chunk_size / s) blocks free, threaded in ascending        *)
(* address order: with no intervening deallocate its k-th allocate returns *)
(* b + (k-1)*s for k = 1..blocks_per_slab, and the next allocate returns   *)
(* null.                                                                   *)
(***************************************************************************)
C33_FreshSlabAscending ==
  \A c \in SlabClasses : \A b \in FreshChunks :
    LET BlockSize == kBlockSizeForClass(c)
        n == kBlocksPerSlab(BlockSize)
        w == SlabWrapper(c, b, mem)
        run == AllocateRun(w.slab, w.mem, n + 1)
    IN /\ w.slab.occupancy_ = {}
       /\ w.slab.allocated_count_ = 0
       /\ FreeBlocks(w.slab) = {b + i * BlockSize : i \in 0..(n - 1)}
       /\ FreeList(w.slab, w.mem) = [k \in 1..n |-> b + (k - 1) * BlockSize]
       /\ \A k \in 1..n : run[k] = b + (k - 1) * BlockSize
       /\ run[n + 1] = NULL

\* a chunk that was used before lies on the stack, still holding the words of
\* its former slab and of the push, and can back a new slab
C33_Witness ==
  /\ head.ptr # NULL
  /\ head.ptr \in DOMAIN mem
  /\ \E a \in DOMAIN mem : a > head.ptr /\ a < head.ptr + kChunkSize

(***************************************************************************)
(* One slab used directly, as the slab tests do: a Slab is constructed     *)
(* over a chunk from the chunk provider and the caller calls allocate()    *)
(* and deallocate(ptr) on it, freeing only blocks it holds.  The slab is   *)
(* kept in the active slot of the bin of its class; live is the blocks the *)
(* caller holds.                                                           *)
(***************************************************************************)
SlabInit ==
  /\ \E c \in SlabClasses : \E b \in MmapOutcomes({}, kChunkSize) \ {MAP_FAILED} :
       LET w == SlabWrapper(c, b, <<>>)
       IN /\ bins = [d \in 0..(kNumClasses - 1) |->
                       IF d = c THEN [EmptyBin EXCEPT !.current_slab = w.slab]
                       ELSE EmptyBin]
          /\ mem = w.mem
          /\ mapped = {[base |-> b, len |-> kChunkSize]}
  /\ head = NullHead
  /\ live = {}
  /\ sc = NoCall
  /\ bm = NoBitmap
  /\ StackIdle([t \in Threads |-> {}])
  /\ NoArenas

\* the class of the slab under test
SlabClass == CHOOSE c \in DOMAIN bins : valid(bins[c].current_slab)

\* the slab under test
TheSlab == bins[SlabClass].current_slab

\* ptr = slab.allocate(); the caller keeps a non-null ptr
SlabAllocate ==
  /\ LET a == Slab_allocate(TheSlab, mem)
     IN /\ bins' = [bins EXCEPT ![SlabClass].current_slab = a.slab]
        /\ live' = IF a.ret = NULL THEN live
                   ELSE live \cup {[ptr |-> a.ret,
                                    size |-> kBlockSizeForClass(SlabClass)]}
  /\ UNCHANGED <<mem, head, mapped, outsideArena>>

\* slab.deallocate(a.ptr) of a block the caller holds
SlabDeallocate(a) ==
  /\ a \in live
  /\ LET d == Slab_deallocate(TheSlab, mem, a.ptr)
     IN /\ bins' = [bins EXCEPT ![SlabClass].current_slab = d.slab]
        /\ mem' = d.mem
  /\ live' = live \ {a}
  /\ UNCHANGED <<head, mapped, outsideArena>>

SlabNext ==
  \/ SlabAllocate
  \/ \E a \in live : SlabDeallocate(a)

SlabSpec == SlabInit /\ [][SlabNext]_vars

(***************************************************************************)
(* C34.  Slab fullness is consistent: in every reachable state full()      *)
(* (free_head is null) holds exactly when allocated_count equals           *)
(* blocks_per_slab, empty() holds exactly when no block is outstanding,    *)
(* and allocate() on a full slab returns null and leaves free_head,        *)
(* allocated_count and the bitmap unchanged.                               *)
(***************************************************************************)
C34_FullnessConsistent ==
  LET n == kBlocksPerSlab(kBlockSizeForClass(SlabClass))
      a == Slab_allocate(TheSlab, mem)
  IN /\ full(TheSlab) <=> (TheSlab.free_head_ = NULL)
     /\ full(TheSlab) <=> (TheSlab.allocated_count_ = n)
     /\ empty(TheSlab) <=> (live = {})
     /\ n - TheSlab.allocated_count_ = Cardinality(FreeBlocks(TheSlab))
     /\ full(TheSlab) => a.ret = NULL /\ a.slab = TheSlab
     /\ ~full(TheSlab) => a.ret # NULL

\* a slab of several blocks is full after blocks of it were freed and
\* allocated again in another order
C34_Witness ==
  /\ full(TheSlab)
  /\ Cardinality(live) >= 2
  /\ \E a \in live : mem[a.ptr] # NULL /\ mem[a.ptr] < a.ptr

\* the starts of all the blocks of slab s
AllBlocks(s) ==
  LET BlockSize == kBlockSizeForClass(s.class_idx_)
  IN {s.base_ + i * BlockSize : i \in 0..(kBlocksPerSlab(BlockSize) - 1)}

\* the blocks of the slab the caller holds
Outstanding == {a.ptr : a \in live}

(***************************************************************************)
(* C35.  In every reachable state of a slab under valid operations, the    *)
(* blocks reachable from free_head are pairwise distinct (the list is      *)
(* acyclic and ends in null), number exactly blocks_per_slab minus         *)
(* allocated_count (= free_blocks()), and together with the outstanding    *)
(* blocks partition the slab's blocks.                                     *)
(***************************************************************************)
C35_FreeListPartition ==
  LET n == kBlocksPerSlab(kBlockSizeForClass(SlabClass))
      fl == FreeList(TheSlab, mem)
  IN /\ \A i, j \in DOMAIN fl : fl[i] = fl[j] => i = j
     /\ Len(fl) <= n
     /\ fl # <<>> => fl[Len(fl)] \in DOMAIN mem /\ mem[fl[Len(fl)]] = NULL
     /\ Len(fl) = n - TheSlab.allocated_count_
     /\ Range(fl) \cup Outstanding = AllBlocks(TheSlab)
     /\ Range(fl) \cap Outstanding = {}

\* two blocks are outstanding and two are free, the free list running
\* against the address order
C35_Witness ==
  LET fl == FreeList(TheSlab, mem)
  IN /\ Cardinality(Outstanding) = 2
     /\ Len(fl) = 2
     /\ fl[1] > fl[2]

\* a step in which the push of thread t succeeds
PushSucceeds(t) == pc[t] = "push_cas" /\ pc'[t] = "idle"

\* a step in which thread t reads head_ inside pop: the load that opens
\* pop, or the reload of a failed compare-and-swap
PopReads(t) == pc[t] \in {"idle", "pop_cas"} /\ pc'[t] = "pop_body"

\* a step in which the pop of thread t returns nullptr
PopReturnsNull(t) == pc[t] = "pop_body" /\ pc'[t] = "idle"

(***************************************************************************)
(* C36.  The concurrent AtomicStack is linearizable to a sequential LIFO   *)
(* stack: every interleaving of push and pop is equivalent to a sequential *)
(* order of the operations, consistent with their real-time order, in      *)
(* which each pop returns the most recently pushed chunk not yet popped,   *)
(* or null when the stack is empty.  Each operation takes effect at one    *)
(* step between its call and its return: a push at its successful          *)
(* compare-and-swap, which puts its chunk on top of the chunks linked from *)
(* head_; a pop that returns a chunk at its successful compare-and-swap,   *)
(* which removes the top chunk and returns it; a pop that returns null at  *)
(* the read of head_ that found the stack empty; and no other step changes *)
(* the chunks linked from head_.                                           *)
(***************************************************************************)
C36_Linearizable ==
  [][/\ \A t \in Threads :
          PushSucceeds(t) =>
            /\ Contents(head', mem') = <<new_node[t]>> \o Contents(head, mem)
            /\ held'[t] = held[t] \ {new_node[t]}
     /\ \A t \in Threads :
          PopSucceeds(t) =>
            /\ Contents(head, mem) = <<old_head[t].ptr>> \o Contents(head', mem')
            /\ held'[t] = held[t] \cup {old_head[t].ptr}
     /\ \A t \in Threads :
          (PopReads(t) /\ old_head'[t].ptr = NULL) =>
            /\ Contents(head, mem) = <<>>
            /\ Contents(head', mem') = <<>>
     /\ \A t \in Threads :
          PopReturnsNull(t) => old_head[t].ptr = NULL /\ held'[t] = held[t]
     /\ (\A t \in Threads : ~PushSucceeds(t) /\ ~PopSucceeds(t)) =>
          Contents(head', mem') = Contents(head, mem)]_vars

\* a push stands before its compare-and-swap with a head that another
\* operation has since replaced, a thread that holds a chunk is inside push
\* or pop, and the stack holds a chunk
C36_Witness ==
  \E t, u \in Threads :
    /\ pc[t] = "push_cas"
    /\ old_head[t].tag < head.tag
    /\ pc[u] # "idle"
    /\ held[u] # {}
    /\ Contents(head, mem) # <<>>

\* AtomicStack::empty() of the stack with head h
AtomicStack_empty(h) == h.ptr = NULL

(***************************************************************************)
(* C37.  pop() on an empty stack returns null and leaves the head (pointer *)
(* and tag) unchanged, and push(nullptr) is a no-op that leaves the head   *)
(* unchanged; after either, empty() is still true on a stack that was      *)
(* empty.                                                                  *)
(***************************************************************************)
C37_EmptyPopAndNullPush ==
  LET o == pop(head, mem)
      u == push(head, mem, NULL)
  IN /\ AtomicStack_empty(head) =>
          /\ o.ret = NULL
          /\ o.head = head
          /\ AtomicStack_empty(o.head)
          /\ AtomicStack_empty(u.head)
          /\ pop(u.head, u.mem).ret = NULL
     /\ u.head = head
     /\ u.mem = mem
     /\ ~AtomicStack_empty(head) => o.ret # NULL /\ o.head # head

\* the stack is empty again after chunks were pushed and popped
C37_Witness ==
  /\ AtomicStack_empty(head)
  /\ head.tag >= 2

\* the slabs of all the bins of world W
AllSlabs(W) == UNION {SlabsOf(W.bins[c]) : c \in DOMAIN W.bins}

(***************************************************************************)
(* C38.  A second deallocate of a block that is already free (a double     *)
(* free on the owning thread with the right size) is ignored: the slab's   *)
(* allocated_count, occupancy bitmap and free list are unchanged by it,    *)
(* allocated_count never wraps below zero, and no later pair of            *)
(* allocations returns the same address.                                   *)
(***************************************************************************)
C38_DoubleFreeIgnored ==
  \A a \in SmallLive :
    LET once == deallocate(World, a.ptr, a.size).W
        twice == deallocate(once, a.ptr, a.size).W
    IN /\ twice.bins = once.bins
       /\ twice.mem = once.mem
       /\ \A s \in AllSlabs(twice) :
            s.allocated_count_ <= kBlocksPerSlab(kBlockSizeForClass(s.class_idx_))
       /\ \A os1 \in OsAnswers(twice, a.size) :
            LET p == allocate(twice, a.size, os1)
            IN \A os2 \in OsAnswers(p.W, a.size) :
                 LET q == allocate(p.W, a.size, os2)
                 IN (p.ret # NULL /\ q.ret # NULL) => p.ret # q.ret

(***************************************************************************)
(* C39.  NexusAllocator<T>::allocate(n) for n > 0 either throws or returns *)
(* storage of at least n * sizeof(T) bytes, where the product is the       *)
(* mathematical one: for n so large that n * sizeof(T) wraps modulo the    *)
(* width of size_t it does not return a block smaller than requested; and  *)
(* deallocate(ptr, n) routes to the same size class or large path as the   *)
(* allocate(n) that produced ptr.                                          *)
(***************************************************************************)
C39_ContainerStorageSuffices ==
  \A call \in ContainerCalls :
    LET n == call[1]
        sizeofT == call[2]
        bytes == ByteCount(n, sizeofT)
    IN n > 0 =>
         \A os \in OsAnswers(World, bytes) :
           LET r == NexusAllocator_allocate(World, n, sizeofT, os)
           IN \/ r.throws
              \/ /\ r.ret # NULL
                 /\ (IF is_large(bytes) THEN bytes ELSE BlockBytes(bytes))
                      >= n * sizeofT
                 /\ \A s \in AllSlabs(r.W) :
                      ~is_large(bytes) /\ contains(s, r.ret) =>
                        s.class_idx_ = index(bytes)
                 /\ NexusAllocator_deallocate(r.W, r.ret, n, sizeofT)
                      = deallocate(r.W, r.ret, bytes)

(***************************************************************************)
(* The bitmap on its own: a Bitmap<N> is constructed for some N and its    *)
(* bits are set, cleared and reset with indices below N.                   *)
(***************************************************************************)
BitmapInit ==
  /\ ArenaInit
  /\ sc = NoCall
  /\ StackIdle([t \in Threads |-> {}])
  /\ NoArenas
  /\ bm \in {Bitmap(N) : N \in 1..MaxBits}

\* bm.set(idx)
BitmapSet(idx) ==
  /\ bm' = Bitmap_set(bm, idx)
  /\ UNCHANGED <<arenaVars, sc, stackVars, threadVars>>

\* bm.clear(idx)
BitmapClear(idx) ==
  /\ bm' = Bitmap_clear(bm, idx)
  /\ UNCHANGED <<arenaVars, sc, stackVars, threadVars>>

\* bm.reset()
BitmapReset ==
  /\ bm' = Bitmap_reset(bm)
  /\ UNCHANGED <<arenaVars, sc, stackVars, threadVars>>

BitmapNext ==
  \/ \E idx \in 0..(bm.N - 1) : BitmapSet(idx)
  \/ \E idx \in 0..(bm.N - 1) : BitmapClear(idx)
  \/ BitmapReset

BitmapSpec == BitmapInit /\ [][BitmapNext]_vars

\* the indices below N whose bit is clear
ClearBits(b) == {i \in 0..(b.N - 1) : ~Bitmap_test(b, i)}

(***************************************************************************)
(* C40.  For a Bitmap of N bits after any sequence of set, clear and reset *)
(* with indices below N: find_first_clear() returns N when all N bits are  *)
(* set and otherwise the lowest index whose bit is clear (never an index   *)
(* >= N from the unused tail of the last word); all() holds exactly when   *)
(* count() = N and none() exactly when count() = 0, also when N is not a   *)
(* multiple of the word width.                                             *)
(***************************************************************************)
C40_BitmapQueries ==
  LET f == Bitmap_find_first_clear(bm)
  IN /\ f <= bm.N
     /\ ClearBits(bm) = {} => f = bm.N
     /\ ClearBits(bm) # {} =>
          /\ f \in ClearBits(bm)
          /\ \A i \in ClearBits(bm) : f <= i
     /\ Bitmap_all(bm) <=> (Bitmap_count(bm) = bm.N)
     /\ Bitmap_none(bm) <=> (Bitmap_count(bm) = 0)
     /\ Bitmap_count(bm) = bm.N - Cardinality(ClearBits(bm))

\* a bitmap of two words whose last word is partly used has all its bits set
C40_Witness ==
  /\ bm.N > kBitsPerWord
  /\ bm.N % kBitsPerWord # 0
  /\ Bitmap_all(bm)
  /\ Bitmap_find_first_clear(bm) = bm.N

=============================================================================
